---------------------------- MODULE Spec2Model ----------------------------
(***************************************************************************)
(* Model of the authorization key store (HeedAuthStore) of                 *)
(* meilisearch-lib/src/index_controller/auth_resolver/auth_store.rs and of *)
(* the credential derivation of meilisearch-http/src/routes/api_key.rs.    *)
(*                                                                         *)
(* Strings and byte slices are sequences of naturals 0..255.  An LMDB      *)
(* database is a function from byte-sequence keys to stored values; its    *)
(* iteration order is the lexicographic order of the keys.  Option values  *)
(* are sequences of length 0 (None) or 1 (Some).                           *)
(***************************************************************************)
EXTENDS Naturals, Sequences, FiniteSets, TLC

\* ------------------------------------------------------------------------
\* Bounds of the model (not program constants)
\* ------------------------------------------------------------------------

\* longest scope / tail of raw bytes given to the compound-key codec
MaxScopeLen == 2

\* ------------------------------------------------------------------------
\* Program constants and small value domains
\* ------------------------------------------------------------------------

KEY_ID_LENGTH == 8

None == << >>

Some(x) == << x >>

\* "key00001", "key00002": two 8-byte ids differing in the last byte
Id1 == << 107, 101, 121, 48, 48, 48, 48, 49 >>

Id2 == << 107, 101, 121, 48, 48, 48, 48, 50 >>

KeyIds == { Id1, Id2 }

\* "*"
Star == << 42 >>

\* "-"
Dash == << 45 >>

\* The Action enumeration (auth_resolver/mod.rs): a closed set of variants.
Actions == { "search", "documents.add", "documents.delete" }

\* Action::repr: the single-byte code of a variant.
ActionRepr(a) ==
    CASE a = "search" -> 1
      [] a = "documents.add" -> 2
      [] a = "documents.delete" -> 3

\* Action::from_repr: the variant of a code, None for an unknown code.
ActionFromRepr(b) ==
    IF \E a \in Actions : ActionRepr(a) = b
    THEN Some(CHOOSE a \in Actions : ActionRepr(a) = b)
    ELSE None

SeqsUpTo(S, n) == UNION { [1..m -> S] : m \in 0..n }

IsPrefix(p, s) == Len(p) <= Len(s) /\ SubSeq(s, 1, Len(p)) = p

\* ------------------------------------------------------------------------
\* Slice helpers (auth_store.rs 190-208)
\* ------------------------------------------------------------------------

\* variant: the bound check is strict
try_split_at_strict(slice, mid) ==
    IF mid < Len(slice)
    THEN Some(<< SubSeq(slice, 1, mid), SubSeq(slice, mid + 1, Len(slice)) >>)
    ELSE None

\* try_split_at: Some((head, tail)) when mid is within bounds, else None.
try_split_at(slice, mid) ==
    IF mid <= Len(slice)
    THEN Some(<< SubSeq(slice, 1, mid), SubSeq(slice, mid + 1, Len(slice)) >>)
    ELSE None

\* variant: a slice shorter than N is split at its end
try_split_array_at_clamped(slice, N) ==
    IF N <= Len(slice) THEN try_split_at(slice, N)
    ELSE try_split_at(slice, Len(slice))

\* try_split_array_at::<N>: the head has exactly N elements, so the
\* conversion to [T; N] never fails.
try_split_array_at(slice, N) ==
    LET r == try_split_at(slice, N)
    IN  IF r = None THEN None
        ELSE IF Len(r[1][1]) = N THEN r ELSE None

\* ------------------------------------------------------------------------
\* str::from_utf8: validity of a byte sequence as UTF-8
\* ------------------------------------------------------------------------

IsCont(b) == b >= 128 /\ b <= 191

RECURSIVE IsUtf8(_)
IsUtf8(bytes) ==
    IF bytes = << >> THEN TRUE
    ELSE LET b0 == bytes[1]
             n  == Len(bytes)
         IN  IF b0 <= 127 THEN IsUtf8(SubSeq(bytes, 2, n))
             ELSE IF b0 >= 194 /\ b0 <= 223
             THEN n >= 2 /\ IsCont(bytes[2]) /\ IsUtf8(SubSeq(bytes, 3, n))
             ELSE IF b0 >= 224 /\ b0 <= 239
             THEN /\ n >= 3
                  /\ IsCont(bytes[2]) /\ IsCont(bytes[3])
                  /\ (b0 = 224 => bytes[2] >= 160)
                  /\ (b0 = 237 => bytes[2] <= 159)
                  /\ IsUtf8(SubSeq(bytes, 4, n))
             ELSE IF b0 >= 240 /\ b0 <= 244
             THEN /\ n >= 4
                  /\ IsCont(bytes[2]) /\ IsCont(bytes[3]) /\ IsCont(bytes[4])
                  /\ (b0 = 240 => bytes[2] >= 144)
                  /\ (b0 = 244 => bytes[2] <= 143)
                  /\ IsUtf8(SubSeq(bytes, 5, n))
             ELSE FALSE

\* ------------------------------------------------------------------------
\* ActionKeyIdCodec (auth_store.rs 156-188)
\* ------------------------------------------------------------------------

\* variant: the scope is not written
ActionKeyIdCodec_bytes_encode_no_scope(key_id, action, index) ==
    key_id \o << ActionRepr(action) >>

\* bytes_encode: [8 bytes id][1 byte action code][scope bytes if Some].
ActionKeyIdCodec_bytes_encode(key_id, action, index) ==
    key_id \o << ActionRepr(action) >>
           \o (IF index = None THEN << >> ELSE index[1])

\* bytes_decode: Some((key_id, action, index)) or None when the bytes are
\* not a well-formed compound key.
ActionKeyIdCodec_bytes_decode(bytes) ==
    LET s1 == try_split_array_at(bytes, KEY_ID_LENGTH)
    IN  IF s1 = None THEN None
        ELSE LET s2 == try_split_array_at(s1[1][2], 1)
             IN  IF s2 = None THEN None
                 ELSE LET rest == s2[1][2]
                          act  == ActionFromRepr(s2[1][1][1])
                      IN  IF rest # << >> /\ ~IsUtf8(rest) THEN None
                          ELSE IF act = None THEN None
                          ELSE Some(<< s1[1][1], act[1],
                                       IF rest = << >> THEN None ELSE Some(rest) >>)

\* ------------------------------------------------------------------------
\* SerdeJsonCodec (auth_store.rs 128-154)
\*
\* A Key is the record [id, actions, indexes, expires_at] (its description
\* and creation/update stamps are carried along unchanged and are left
\* out).  The serialized form is the JSON object written as the tuple of
\* its field values in declaration order; a timestamp is the JSON string
\* written as a one-element tuple.  Decoding checks the shape and fails
\* (None) on anything else.
\* ------------------------------------------------------------------------

SerdeJsonCodec_bytes_encode_Key(key) ==
    << key.id, key.actions, key.indexes, << key.expires_at >> >>

SerdeJsonCodec_bytes_decode_Key(bytes) ==
    IF Len(bytes) # 4 THEN None
    ELSE IF /\ Len(bytes[1]) = KEY_ID_LENGTH
            /\ \A i \in DOMAIN bytes[2] : bytes[2][i] \in Actions
            /\ Len(bytes[4]) = 1
         THEN Some([ id         |-> bytes[1],
                     actions    |-> bytes[2],
                     indexes    |-> bytes[3],
                     expires_at |-> bytes[4][1] ])
         ELSE None

SerdeJsonCodec_bytes_encode_DateTime(t) == << t >>

\* ------------------------------------------------------------------------
\* heed / LMDB databases
\* ------------------------------------------------------------------------

EmptyDb == << >>

\* Database::put: insert or overwrite.
DbPut(db, k, v) == [ x \in (DOMAIN db) \cup { k } |-> IF x = k THEN v ELSE db[x] ]

\* Database::delete: remove, a no-op when absent.
DbDelete(db, k) == [ x \in (DOMAIN db) \ { k } |-> db[x] ]

\* memcmp order of LMDB keys
RECURSIVE LexLess(_, _)
LexLess(a, b) ==
    IF a = << >> THEN b # << >>
    ELSE IF b = << >> THEN FALSE
    ELSE IF a[1] # b[1] THEN a[1] < b[1]
    ELSE LexLess(Tail(a), Tail(b))

\* the first key of a non-empty set of keys in iteration order
MinKey(S) == CHOOSE k \in S : \A o \in S \ { k } : LexLess(k, o)

\* the keys of a set in iteration order
RECURSIVE SortedKeys(_)
SortedKeys(S) ==
    IF S = {} THEN << >>
    ELSE LET k == MinKey(S) IN << k >> \o SortedKeys(S \ { k })

\* the keys a prefix iterator visits
PrefixKeys(db, prefix) == { k \in DOMAIN db : IsPrefix(prefix, k) }

\* ------------------------------------------------------------------------
\* Credential derivation (api_key.rs 134-138)
\* ------------------------------------------------------------------------

HexDigit(n) == IF n < 10 THEN 48 + n ELSE 87 + n

RECURSIVE SumBytes(_)
SumBytes(bytes) == IF bytes = << >> THEN 0 ELSE bytes[1] + SumBytes(Tail(bytes))

\* Sha256::digest formatted with {:x}.  The digest is abstracted to one byte
\* (the sum of the input bytes modulo 256) written as two hex digits: a
\* deterministic function of the input whose output is hex text.
Sha256Hex(bytes) ==
    LET d == SumBytes(bytes) % 256
    IN  << HexDigit(d \div 16), HexDigit(d % 16) >>

\* generate_key: "{uid}-{sha256(uid-master_key)}"
generate_key(master_key, uid) ==
    uid \o Dash \o Sha256Hex(uid \o Dash \o master_key)

\* ------------------------------------------------------------------------
\* Results returned to the caller
\*   op     the operation, arg its id or credential, value the Ok payload
\*   error  which call failed ("decoding": heed's Error::Decoding)
\*   dirty  whether the aborted write transaction had pending changes
\*   txns   number of write transactions the call opened
\*   pre    what a committed write found before it: whether the primary
\*          record existed, how many inverted entries the purge removed,
\*          how many of them were not written again, and how many of them
\*          had a key that does not decode
\* ------------------------------------------------------------------------

NoPre == [ had |-> FALSE, purged |-> 0, stale |-> 0, undecoded |-> 0 ]

Ok(op, arg, value, txns) ==
    [ op |-> op, status |-> "Ok", error |-> "none", arg |-> arg,
      value |-> value, dirty |-> FALSE, txns |-> txns, pre |-> NoPre ]

Err(op, arg, error, dirty, txns) ==
    [ op |-> op, status |-> "Err", error |-> error, arg |-> arg,
      value |-> None, dirty |-> dirty, txns |-> txns, pre |-> NoPre ]

\* ------------------------------------------------------------------------
\* HeedAuthStore (auth_store.rs 49-125), as functions of the committed
\* tables.  `fail` names the engine call that fails in this run of the
\* handler ("none": no failure).
\* ------------------------------------------------------------------------

\* variant: a failed transaction keeps what it wrote
TxnEnd_no_rollback(committed, working, failed) == working

\* RwTxn: commit() publishes the working copy; a `?` that returns early
\* drops the RwTxn, which aborts it.
TxnEnd(committed, working, failed) == IF failed THEN committed ELSE working

\* variant: the purge is left out
delete_key_from_inverted_db_noop(db, key) == db

\* variant: the iterator stops after the first deleted entry
delete_key_from_inverted_db_first_only(db, key) ==
    LET matching == PrefixKeys(db, key)
    IN  IF matching = {} THEN db ELSE DbDelete(db, MinKey(matching))

\* variant: the prefix of the purge is one byte short of the id
delete_key_from_inverted_db_short_prefix(db, key) ==
    LET matching == PrefixKeys(db, SubSeq(key, 1, Len(key) - 1))
    IN  [ k \in DOMAIN db \ matching |-> db[k] ]

\* delete_key_from_inverted_db: the prefix iterator yields the entries whose
\* key starts with `key` in key order and each is deleted as it is yielded;
\* neither key nor value is decoded (ByteSlice, DecodeIgnore).
RECURSIVE delete_key_from_inverted_db(_, _)
delete_key_from_inverted_db(db, key) ==
    LET matching == PrefixKeys(db, key)
    IN  IF matching = {} THEN db
        ELSE delete_key_from_inverted_db(DbDelete(db, MinKey(matching)), key)

\* The (id, action, index) items put_api_key writes, in loop order.
PutEntries(key) ==
    LET no_index_restriction ==
            \E i \in DOMAIN key.indexes : key.indexes[i] = Star
        na == Len(key.actions)
        ni == Len(key.indexes)
    IN  IF no_index_restriction
        THEN [ j \in 1..na |-> << key.id, key.actions[j], None >> ]
        ELSE [ j \in 1..(na * ni) |->
                 << key.id,
                    key.actions[((j - 1) \div ni) + 1],
                    Some(key.indexes[((j - 1) % ni) + 1]) >> ]

\* db.put of each item with the key's expiry
RECURSIVE PutAll(_, _, _)
PutAll(db, entries, value) ==
    IF entries = << >> THEN db
    ELSE PutAll(DbPut(db,
                      ActionKeyIdCodec_bytes_encode(entries[1][1], entries[1][2],
                                                    entries[1][3]),
                      value),
                Tail(entries), value)

\* variant: the record is inserted only when the id is new
PutPrimary_insert_only(ks, key) ==
    IF key.id \in DOMAIN ks THEN ks
    ELSE DbPut(ks, key.id, SerdeJsonCodec_bytes_encode_Key(key))

\* self.keys.put(&mut wtxn, &key.id, &key)
PutPrimary(ks, key) == DbPut(ks, key.id, SerdeJsonCodec_bytes_encode_Key(key))

PutFails(key) ==
    { "none", "write_txn", "keys.put", "purge", "commit" }
        \cup (IF PutEntries(key) = << >> THEN {} ELSE { "db.put" })

put_api_key(ks, iv, key, fail) ==
    LET id == key.id
        k1 == PutPrimary(ks, key)
        i1 == delete_key_from_inverted_db(iv, id)
        i2 == PutAll(i1, PutEntries(key),
                     SerdeJsonCodec_bytes_encode_DateTime(key.expires_at))
        committed == [ keys |-> ks, inv |-> iv ]
        working ==
            CASE fail \in { "write_txn", "keys.put" } -> committed
              [] fail = "purge"  -> [ keys |-> k1, inv |-> iv ]
              [] fail = "db.put" -> [ keys |-> k1, inv |-> i1 ]
              [] OTHER           -> [ keys |-> k1, inv |-> i2 ]
        end == TxnEnd(committed, working, fail # "none")
    IN  [ keys |-> end.keys, inv |-> end.inv,
          result |-> IF fail = "none" THEN Ok("put", id, key, 1)
                     ELSE Err("put", None, fail,
                              working.keys # ks \/ working.inv # iv, 1) ]

DeleteFails(key) ==
    { "none", "write_txn", "commit" }
        \cup (IF try_split_array_at(key, KEY_ID_LENGTH) = None THEN {}
              ELSE { "keys.delete", "purge" })

delete_api_key(ks, iv, key, fail) ==
    LET split == try_split_array_at(key, KEY_ID_LENGTH)
        id == split[1][1]
        existing == IF split = None THEN FALSE ELSE id \in DOMAIN ks
        k1 == IF split = None THEN ks ELSE DbDelete(ks, id)
        i1 == IF split = None THEN iv ELSE delete_key_from_inverted_db(iv, id)
        committed == [ keys |-> ks, inv |-> iv ]
        working ==
            CASE fail \in { "write_txn", "keys.delete" } -> committed
              [] fail = "purge" -> [ keys |-> k1, inv |-> iv ]
              [] OTHER          -> [ keys |-> k1, inv |-> i1 ]
        end == TxnEnd(committed, working, fail # "none")
    IN  [ keys |-> end.keys, inv |-> end.inv,
          result |-> IF fail = "none" THEN Ok("delete", key, existing, 1)
                     ELSE Err("delete", None, fail,
                              working.keys # ks \/ working.inv # iv, 1) ]

\* variant: the record is returned only to the credential derived with an
\* empty master key
LookupKey_checks_suffix(ks, id, key) ==
    IF id \notin DOMAIN ks \/ key # generate_key(<< >>, id)
    THEN Ok("get", key, None, 0)
    ELSE LET d == SerdeJsonCodec_bytes_decode_Key(ks[id])
         IN  IF d = None THEN Err("get", key, "decoding", FALSE, 0)
             ELSE Ok("get", key, d, 0)

\* variant: a decoding error is dropped and reported as no record
LookupKey_swallow(ks, id, key) ==
    IF id \notin DOMAIN ks THEN Ok("get", key, None, 0)
    ELSE Ok("get", key, SerdeJsonCodec_bytes_decode_Key(ks[id]), 0)

\* self.keys.get(&rtxn, &id).map_err(|e| e.into()): Database::get with
\* SerdeJsonCodec<Key>; a stored value that does not decode is
\* Error::Decoding.
LookupKey(ks, id, key) ==
    IF id \notin DOMAIN ks THEN Ok("get", key, None, 0)
    ELSE LET d == SerdeJsonCodec_bytes_decode_Key(ks[id])
         IN  IF d = None THEN Err("get", key, "decoding", FALSE, 0)
             ELSE Ok("get", key, d, 0)

get_api_key(ks, key, fail) ==
    IF fail = "read_txn" THEN Err("get", None, fail, FALSE, 0)
    ELSE LET split == try_split_array_at(key, KEY_ID_LENGTH)
         IN  IF split = None THEN Ok("get", key, None, 0)
             ELSE LookupKey(ks, split[1][1], key)

\* The iterator yields the records in key order; `result?` returns the
\* first decoding error.
list_api_keys(ks, fail) ==
    IF fail = "read_txn" THEN Err("list", None, fail, FALSE, 0)
    ELSE LET order == SortedKeys(DOMAIN ks)
             items == [ i \in DOMAIN order |->
                          SerdeJsonCodec_bytes_decode_Key(ks[order[i]]) ]
         IN  IF \E i \in DOMAIN items : items[i] = None
             THEN Err("list", None, "decoding", FALSE, 0)
             ELSE Ok("list", None, [ i \in DOMAIN items |-> items[i][1] ], 0)

\* ------------------------------------------------------------------------
\* Inputs
\* ------------------------------------------------------------------------

\* number of distinct expiry timestamps
MaxExpiry == 2

Expiries == 1..MaxExpiry

\* index names "m" (movies), "b" (books) and the empty string
IxM == << 109 >>

IxB == << 98 >>

IxEmpty == << >>

\* key.actions: empty, one action, two distinct actions, a repeated action
ActionLists ==
    { << >>, << "search" >>, << "search", "documents.add" >>,
      << "search", "search" >> }

\* key.indexes: empty, wildcard, one or two literals, wildcard mixed with a
\* literal, a repeated literal, the empty string alone and with a literal
IndexLists ==
    { << >>, << Star >>, << IxM >>, << IxM, IxB >>, << IxM, Star >>,
      << IxM, IxM >>, << IxEmpty >>, << IxEmpty, IxM >> }

\* Keys given to put_api_key: every combination for Id1, one key for Id2.
KeyInputs ==
    [ id : { Id1 }, actions : ActionLists, indexes : IndexLists,
      expires_at : Expiries ]
    \cup { [ id |-> Id2, actions |-> << "documents.add" >>,
             indexes |-> << IxB >>, expires_at |-> 1 ] }

\* master keys: none ("") and "s"
MasterKeys == { << >>, << 115 >> }

\* Credentials given to get_api_key and delete_api_key: the derived
\* credential of Id1 under each master key, that of Id2 under no master
\* key, and a 7-byte string.
Credentials ==
    { generate_key(m, Id1) : m \in MasterKeys }
    \cup { generate_key(<< >>, Id2), SubSeq(Id1, 1, KEY_ID_LENGTH - 1) }

\* bytes of scopes and raw keys: "a", the two bytes of U+00E9, and 0xFF
ScopeBytes == { 97, 195, 169, 255 }

Tails == SeqsUpTo(ScopeBytes, MaxScopeLen)

\* (id, action, index) items: index None or any valid UTF-8 string
CodecItems ==
    { << id, a, ix >> :
        id \in KeyIds, a \in Actions,
        ix \in { None } \cup { Some(t) : t \in { u \in Tails : IsUtf8(u) } } }

\* raw keys: prefixes of an id, and id + code + tail with known and
\* unknown codes
RawKeys ==
    { SubSeq(Id1, 1, n) : n \in 0..KEY_ID_LENGTH }
    \cup { Id1 \o << c >> \o t : c \in { 1, 2, 99 }, t \in Tails }

NoItem == << Id1, "search", None >>

CodecInputs ==
    { [ kind |-> "items", x |-> x, y |-> y, b |-> << >> ] :
        x \in CodecItems, y \in CodecItems }
    \cup { [ kind |-> "bytes", x |-> NoItem, y |-> NoItem, b |-> b ] :
             b \in RawKeys }

\* ------------------------------------------------------------------------
\* State
\* ------------------------------------------------------------------------

VARIABLES
    keys,    \* committed `keys` database: id -> serialized Key
    inv,     \* committed `action_keyid_index_expiration` database
    result,  \* what the last call returned
    cin,     \* input of the codec run
    cout,    \* output of the codec run
    writers, \* per writing caller: its call and its write transaction
    readers, \* per reading caller: its call and its read transaction
    committed_puts, \* the Keys whose put_api_key has committed
    tasks,          \* task store, committed: TaskId -> Task
    next_task_id,   \* task store, committed: the next TaskId
    task_txn,       \* the request that holds the task store's write transaction
    update_files,   \* update file store: content uuid -> persisted documents
    next_uuid,      \* number of the next fresh content uuid
    requests,       \* per caller of register_update: its call
    commit_log,     \* the TaskIds of the committed registrations, in commit order
    reply,          \* what the last get_task or list_tasks call returned
    builder,        \* the IndexControllerBuilder being configured
    built           \* what the last IndexControllerBuilder::build returned

concVars == << writers, readers, committed_puts >>

ctlVars ==
    << tasks, next_task_id, task_txn, update_files, next_uuid, requests,
       commit_log, reply >>

\* the key store and its callers
storeVars == << keys, inv, result, cin, cout, concVars >>

\* the controller's builder and what it built
builderVars == << builder, built >>

vars == << keys, inv, result, cin, cout, concVars, ctlVars, builderVars >>

NoResult ==
    [ op |-> "none", status |-> "Ok", error |-> "none", arg |-> None,
      value |-> None, dirty |-> FALSE, txns |-> 0, pre |-> NoPre ]

NoCodecInput == [ kind |-> "none", x |-> NoItem, y |-> NoItem, b |-> << >> ]

NoCodecOutput ==
    [ done |-> FALSE, enc_x |-> << >>, enc_y |-> << >>, dec |-> None,
      outcome |-> "none" ]

\* callers of a store shared between threads (HeedAuthStore is Clone)
Writers == { "w1", "w2" }

Readers == { "r1" }

NoKey == [ id |-> << >>, actions |-> << >>, indexes |-> << >>, expires_at |-> 0 ]

NoCall == [ op |-> "none", key |-> NoKey, cred |-> << >> ]

NoLast == [ call |-> NoCall, status |-> "none", value |-> FALSE ]

\* a writer with no call in progress and no transaction
IdleWriter ==
    [ pc |-> "idle", call |-> NoCall, wkeys |-> EmptyDb, winv |-> EmptyDb,
      next |-> 0, existing |-> FALSE, last |-> NoLast, conc |-> FALSE ]

IdleReader ==
    [ pc |-> "idle", call |-> NoCall,
      snap |-> [ keys |-> EmptyDb, inv |-> EmptyDb ],
      done |-> FALSE, value |-> NoResult, during |-> "none" ]

\* ------------------------------------------------------------------------
\* IndexControllerBuilder (mod.rs 127-283)
\* ------------------------------------------------------------------------

MaxSize == 3

\* the sizes a caller passes to the setters
Sizes == 1 .. MaxSize

\* #[derive(Default)]: every Option is None; of the fields, those that
\* build reads are kept
IndexControllerBuilder_default ==
    [ max_index_size        |-> << >>,
      max_update_store_size |-> << >>,
      import_snapshot       |-> FALSE,
      dump_src              |-> FALSE ]

\* no build has returned yet
NoBuilt ==
    [ status |-> "none", error |-> "none", from |-> IndexControllerBuilder_default,
      index_resolver_size |-> << >>, task_store_size |-> << >>,
      dump_sizes |-> << >> ]

\* the calls of build that can fail after the sizes were read, for a builder
BuildFails(b) ==
    { "none", "create_dir_all", "create_index_resolver", "create_task_store",
      "UpdateFileStore::new" }
        \cup (IF b.import_snapshot THEN { "load_snapshot" } ELSE {})
        \cup (IF ~b.import_snapshot /\ b.dump_src THEN { "load_dump" } ELSE {})

\* let update_store_size = self.max_index_size.ok_or_else(..)
build_update_store_size(b) == b.max_index_size

\* IndexControllerBuilder::build: the result, with the builder it was called
\* on (from), the size create_index_resolver and create_task_store were
\* called with, and the sizes passed to load_dump
build(b, fail) ==
    LET index_size == b.max_index_size
        update_store_size == build_update_store_size(b)
        err(e) == [ NoBuilt EXCEPT !.status = "Err", !.error = e, !.from = b ]
        dumped == IF ~b.import_snapshot /\ b.dump_src
                  THEN << index_size[1], update_store_size[1] >>
                  ELSE << >>
    IN  IF index_size = << >> THEN err("Missing index size")
        ELSE IF update_store_size = << >>
             THEN err("Missing update database size")
        ELSE IF fail \in { "load_snapshot", "load_dump", "create_dir_all" }
             THEN err(fail)
        ELSE IF fail = "create_index_resolver"
             THEN [ err(fail) EXCEPT !.dump_sizes = dumped ]
        ELSE IF fail = "create_task_store"
             THEN [ err(fail) EXCEPT !.dump_sizes = dumped,
                                     !.index_resolver_size = index_size ]
        ELSE [ status |-> IF fail = "none" THEN "Ok" ELSE "Err",
               error  |-> fail,
               from   |-> b,
               index_resolver_size |-> index_size,
               task_store_size     |-> update_store_size,
               dump_sizes          |-> dumped ]

InitBuilder ==
    /\ builder = IndexControllerBuilder_default
    /\ built = NoBuilt

\* no caller is in the store
InitCallers ==
    /\ writers = [ w \in Writers |-> IdleWriter ]
    /\ readers = [ r \in Readers |-> IdleReader ]
    /\ committed_puts = {}

\* callers of register_update on a shared IndexController (it is Clone)
Requests == { "q1", "q2" }

NoUpdate ==
    [ kind |-> "none", ids |-> << >>, payload |-> << >>, primary_key |-> None,
      method |-> "none", format |-> "none" ]

NoContent ==
    [ kind |-> "none", deletion |-> "none", ids |-> << >>, content_uuid |-> 0,
      merge_strategy |-> "none", primary_key |-> None, documents_count |-> 0 ]

\* a caller outside register_update
\*   file       the open update file handle: none, or what was written to it
\*   decoded    what the decoder returned: none, "Err", or "Ok"
\*   written    how many documents the decoder wrote to the handle
\*   outcome    how the call ended: "Ok" (with task), "Err", or "panic"
\*              (at panic_at); "crashed" when the process stopped during it;
\*              "cancelled" when its future was dropped
\*   cancelled  the future was dropped while the blocking task runs on
\*   registered, persisted
\*              how many Tasks the call committed and how many update
\*              files it persisted
IdleRequest ==
    [ pc |-> "idle", uid |-> "", update |-> NoUpdate, buffer |-> << >>,
      content_uuid |-> 0, file |-> None, decoded |-> "none", written |-> 0,
      documents_count |-> 0, task_id |-> 0, outcome |-> "none",
      panic_at |-> "none", task |-> None, registered |-> 0, persisted |-> 0,
      cancelled |-> FALSE ]

\* no call of get_task or list_tasks was made
\*   arg      the id and the filter, or the filter
\*   outcome  "Ok" (with value: the Task, or the Tasks) or "panic"
NoReply ==
    [ op |-> "none", arg |-> << >>, outcome |-> "none", panic_at |-> "none",
      value |-> << >> ]

\* IndexControllerBuilder::build on an empty db_path: an empty task store
\* and an empty update file store, and no request
InitController ==
    /\ tasks = << >>
    /\ next_task_id = 0
    /\ task_txn = "none"
    /\ update_files = << >>
    /\ next_uuid = 1
    /\ requests = [ q \in Requests |-> IdleRequest ]
    /\ commit_log = << >>
    /\ reply = NoReply

\* HeedAuthStore::new on an empty directory: both databases are created empty.
Init ==
    /\ keys = EmptyDb
    /\ inv = EmptyDb
    /\ result = NoResult
    /\ cin = NoCodecInput
    /\ cout = NoCodecOutput
    /\ InitCallers
    /\ InitBuilder
    /\ InitController

\* ------------------------------------------------------------------------
\* Operations
\* ------------------------------------------------------------------------

\* the id a credential names: its first 8 bytes, none when it is shorter
IdOf(credential) ==
    IF Len(credential) >= KEY_ID_LENGTH
    THEN SubSeq(credential, 1, KEY_ID_LENGTH)
    ELSE << >>

\* The result of a write with `pre` filled in from the tables before and
\* after it, for the id it was about (a credential shorter than an id is
\* about none).
Observed(r, id) ==
    IF r.result.status = "Ok" /\ Len(id) = KEY_ID_LENGTH
    THEN LET old == PrefixKeys(inv, id)
         IN  [ r.result EXCEPT !.pre =
                 [ had       |-> id \in DOMAIN keys,
                   purged    |-> Cardinality(old),
                   stale     |-> Cardinality(old \ DOMAIN r.inv),
                   undecoded |-> Cardinality(
                       { k \in old : ActionKeyIdCodec_bytes_decode(k) = None }) ] ]
    ELSE r.result

PutApiKey ==
    \E key \in KeyInputs :
      \E fail \in PutFails(key) :
        \E r \in { put_api_key(keys, inv, key, fail) } :
            /\ keys' = r.keys
            /\ inv' = r.inv
            /\ result' = Observed(r, key.id)
            /\ UNCHANGED << builderVars, cin, cout, concVars, ctlVars >>

DeleteApiKey ==
    \E key \in Credentials :
      \E fail \in DeleteFails(key) :
        \E r \in { delete_api_key(keys, inv, key, fail) } :
            /\ keys' = r.keys
            /\ inv' = r.inv
            /\ result' = Observed(r, IdOf(key))
            /\ UNCHANGED << builderVars, cin, cout, concVars, ctlVars >>

GetApiKey ==
    \E key \in Credentials :
      \E fail \in { "none", "read_txn" } :
        /\ result' = get_api_key(keys, key, fail)
        /\ UNCHANGED << builderVars, keys, inv, cin, cout, concVars, ctlVars >>

ListApiKeys ==
    \E fail \in { "none", "read_txn" } :
      /\ result' = list_api_keys(keys, fail)
      /\ UNCHANGED << builderVars, keys, inv, cin, cout, concVars, ctlVars >>

Next == PutApiKey \/ DeleteApiKey \/ GetApiKey \/ ListApiKeys

Spec == Init /\ [][Next]_vars

\* ------------------------------------------------------------------------
\* The codec on its own: one run encodes two items and decodes the first
\* encoding, or decodes raw bytes.
\* ------------------------------------------------------------------------

\* What heed reports for a stored key: an undecodable key is
\* Error::Decoding, a decoded one is the item.
DecodeOutcome(d) == IF d = None THEN "decoding" ELSE "item"

InitCodec ==
    /\ keys = EmptyDb
    /\ inv = EmptyDb
    /\ result = NoResult
    /\ cin \in CodecInputs
    /\ cout = NoCodecOutput
    /\ InitCallers
    /\ InitBuilder
    /\ InitController

CodecRoundTrip ==
    /\ cin.kind = "items"
    /\ ~cout.done
    /\ LET ex == ActionKeyIdCodec_bytes_encode(cin.x[1], cin.x[2], cin.x[3])
           ey == ActionKeyIdCodec_bytes_encode(cin.y[1], cin.y[2], cin.y[3])
           d  == ActionKeyIdCodec_bytes_decode(ex)
       IN  cout' = [ done |-> TRUE, enc_x |-> ex, enc_y |-> ey, dec |-> d,
                     outcome |-> DecodeOutcome(d) ]
    /\ UNCHANGED << builderVars, keys, inv, result, cin, concVars, ctlVars >>

CodecDecode ==
    /\ cin.kind = "bytes"
    /\ ~cout.done
    /\ LET d == ActionKeyIdCodec_bytes_decode(cin.b)
       IN  cout' = [ done |-> TRUE, enc_x |-> << >>, enc_y |-> << >>,
                     dec |-> d, outcome |-> DecodeOutcome(d) ]
    /\ UNCHANGED << builderVars, keys, inv, result, cin, concVars, ctlVars >>

NextCodec == CodecRoundTrip \/ CodecDecode

SpecCodec == InitCodec /\ [][NextCodec]_vars

\* ------------------------------------------------------------------------
\* The store opened on a directory that already holds data.
\* HeedAuthStore::new opens whatever environment is at the path, so the
\* tables start with what is on disk, which may include records and
\* compound keys that do not decode.
\* ------------------------------------------------------------------------

DiskKey ==
    [ id |-> Id1, actions |-> << "search" >>, indexes |-> << IxM >>,
      expires_at |-> 1 ]

DiskIndex ==
    PutAll(EmptyDb, PutEntries(DiskKey),
           SerdeJsonCodec_bytes_encode_DateTime(DiskKey.expires_at))

\* compound keys under Id1 that do not decode: no action byte, an unknown
\* action code, a scope that is not UTF-8
BadIndexKeys == { Id1, Id1 \o << 99 >>, Id1 \o << 1, 255 >> }

OnDisk ==
    { \* nothing on disk
      [ keys |-> EmptyDb, inv |-> EmptyDb ],
      \* a record that does not deserialize (empty value)
      [ keys |-> DbPut(EmptyDb, Id1, << >>), inv |-> EmptyDb ],
      \* a good record whose index holds undecodable keys as well, and a
      \* truncated record under the other id
      [ keys |-> DbPut(PutPrimary(EmptyDb, DiskKey), Id2, << Id2 >>),
        inv  |-> [ k \in (DOMAIN DiskIndex) \cup BadIndexKeys |->
                     IF k \in DOMAIN DiskIndex THEN DiskIndex[k] ELSE << 1 >> ] ] }

InitFault ==
    /\ \E d \in OnDisk : keys = d.keys /\ inv = d.inv
    /\ result = NoResult
    /\ cin = NoCodecInput
    /\ cout = NoCodecOutput
    /\ InitCallers
    /\ InitBuilder
    /\ InitController

SpecFault == InitFault /\ [][Next]_vars

\* ------------------------------------------------------------------------
\* Concurrent callers.  Each writing call runs the statements of
\* put_api_key / delete_api_key one at a time inside its RwTxn; each
\* reading call opens a RoTxn and then reads.  The engine (LMDB through
\* heed) gives env.write_txn() to one caller at a time, keeps a write
\* transaction's changes private until commit(), and gives env.read_txn()
\* the last committed tables without taking the writer's lock.
\* ------------------------------------------------------------------------

KeyA ==
    [ id |-> Id1, actions |-> << "search" >>, indexes |-> << IxM, IxB >>,
      expires_at |-> 1 ]

KeyB ==
    [ id |-> Id1, actions |-> << "search", "documents.add" >>,
      indexes |-> << Star >>, expires_at |-> MaxExpiry ]

KeyC ==
    [ id |-> Id2, actions |-> << "documents.add" >>, indexes |-> << IxB >>,
      expires_at |-> 1 ]

WriterCalls ==
    { [ op |-> "put", key |-> k, cred |-> << >> ] : k \in { KeyA, KeyB, KeyC } }
    \cup { [ op |-> "delete", key |-> NoKey, cred |-> generate_key(<< >>, Id1) ] }

ReaderCalls ==
    { [ op |-> "get", key |-> NoKey, cred |-> generate_key(<< >>, Id1) ],
      [ op |-> "list", key |-> NoKey, cred |-> << >> ] }

\* the id a writing call works on
CallId(call) == IF call.op = "put" THEN call.key.id ELSE IdOf(call.cred)

\* the writer holds an RwTxn
TxnOpen(ws, w) == ws[w].pc \in { "opened", "purge", "fill", "commit" }

\* variant: write transactions are handed out without mutual exclusion
WriteLockFree_unguarded(ws, w) == TRUE

\* env.write_txn() returns once no other write transaction is open
WriteLockFree(ws, w) == \A o \in Writers \ { w } : ~TxnOpen(ws, o)

\* variant: a read transaction sees the pending changes of an open writer
ReadSnapshot_dirty(ks, iv, ws) ==
    IF \E w \in Writers : TxnOpen(ws, w)
    THEN LET w == CHOOSE x \in Writers : TxnOpen(ws, x)
         IN  [ keys |-> ws[w].wkeys, inv |-> ws[w].winv ]
    ELSE [ keys |-> ks, inv |-> iv ]

\* env.read_txn(): the tables as of the last commit
ReadSnapshot(ks, iv, ws) == [ keys |-> ks, inv |-> iv ]

Other(w) == CHOOSE o \in Writers : o # w

\* a caller enters put_api_key or delete_api_key
WriterCall(w) ==
    /\ writers[w].pc = "idle"
    /\ \E c \in WriterCalls :
         LET o == Other(w)
             busy == writers[o].pc # "idle"
         IN  writers' =
               [ writers EXCEPT
                   ![w] = [ IdleWriter EXCEPT !.pc = "called", !.call = c,
                                              !.conc = busy ],
                   ![o] = [ @ EXCEPT !.conc = IF busy THEN TRUE ELSE @ ] ]
    /\ UNCHANGED << builderVars, keys, inv, result, cin, cout, readers, committed_puts, ctlVars >>

\* let mut wtxn = self.env.write_txn()?
WriterBegin(w) ==
    /\ writers[w].pc = "called"
    /\ WriteLockFree(writers, w)
    /\ writers' = [ writers EXCEPT ![w].pc = "opened",
                                   ![w].wkeys = keys, ![w].winv = inv ]
    /\ UNCHANGED << builderVars, keys, inv, result, cin, cout, readers, committed_puts, ctlVars >>

\* self.keys.put(&mut wtxn, &key.id, &key)? in put_api_key;
\* try_split_array_at and self.keys.delete(&mut wtxn, &id)? in delete_api_key
WriterPrimary(w) ==
    /\ writers[w].pc = "opened"
    /\ LET me == writers[w]
           c == me.call
       IN  writers' =
             IF c.op = "put"
             THEN [ writers EXCEPT ![w].pc = "purge",
                                   ![w].wkeys = PutPrimary(me.wkeys, c.key) ]
             ELSE IF try_split_array_at(c.cred, KEY_ID_LENGTH) = None
             THEN [ writers EXCEPT ![w].pc = "commit" ]
             ELSE [ writers EXCEPT
                      ![w].pc = "purge",
                      ![w].existing = CallId(c) \in DOMAIN me.wkeys,
                      ![w].wkeys = DbDelete(me.wkeys, CallId(c)) ]
    /\ UNCHANGED << builderVars, keys, inv, result, cin, cout, readers, committed_puts, ctlVars >>

\* one turn of the loop of delete_key_from_inverted_db: iter.next() and
\* del_current(), or the end of the iteration
WriterPurge(w) ==
    /\ writers[w].pc = "purge"
    /\ LET me == writers[w]
           matching == PrefixKeys(me.winv, CallId(me.call))
       IN  writers' =
             IF matching # {}
             THEN [ writers EXCEPT
                      ![w].winv = DbDelete(me.winv, MinKey(matching)) ]
             ELSE IF me.call.op = "put"
             THEN [ writers EXCEPT ![w].pc = "fill", ![w].next = 1 ]
             ELSE [ writers EXCEPT ![w].pc = "commit" ]
    /\ UNCHANGED << builderVars, keys, inv, result, cin, cout, readers, committed_puts, ctlVars >>

\* one db.put of the loops of put_api_key, or their end
WriterFill(w) ==
    /\ writers[w].pc = "fill"
    /\ LET me == writers[w]
           entries == PutEntries(me.call.key)
       IN  writers' =
             IF me.next <= Len(entries)
             THEN [ writers EXCEPT
                      ![w].winv =
                          PutAll(me.winv, << entries[me.next] >>,
                                 SerdeJsonCodec_bytes_encode_DateTime(
                                     me.call.key.expires_at)),
                      ![w].next = me.next + 1 ]
             ELSE [ writers EXCEPT ![w].pc = "commit" ]
    /\ UNCHANGED << builderVars, keys, inv, result, cin, cout, readers, committed_puts, ctlVars >>

\* the readers whose transaction began during w's write transaction no
\* longer overlap it once it ends
EndOverlap(w) ==
    [ r \in Readers |->
        IF readers[r].during = w THEN [ readers[r] EXCEPT !.during = "none" ]
        ELSE readers[r] ]

\* wtxn.commit()? and the Ok return
WriterCommit(w) ==
    /\ writers[w].pc = "commit"
    /\ LET me == writers[w]
       IN  /\ keys' = me.wkeys
           /\ inv' = me.winv
           /\ committed_puts' =
                 IF me.call.op = "put" THEN committed_puts \cup { me.call.key }
                 ELSE committed_puts
           /\ writers' =
                 [ writers EXCEPT
                     ![w] = [ IdleWriter EXCEPT
                                !.conc = me.conc,
                                !.last = [ call |-> me.call, status |-> "Ok",
                                           value |-> me.existing ] ] ]
    /\ readers' = EndOverlap(w)
    /\ UNCHANGED << builderVars, result, cin, cout, ctlVars >>

\* an engine call fails: `?` returns the error and the RwTxn, if one was
\* obtained, is dropped
WriterFail(w) ==
    /\ writers[w].pc \in { "called", "opened", "purge", "fill", "commit" }
    /\ writers' =
          [ writers EXCEPT
              ![w] = [ IdleWriter EXCEPT
                         !.conc = writers[w].conc,
                         !.last = [ call |-> NoCall, status |-> "Err",
                                    value |-> FALSE ] ] ]
    /\ readers' = EndOverlap(w)
    /\ UNCHANGED << builderVars, keys, inv, result, cin, cout, committed_puts, ctlVars >>

\* let rtxn = self.env.read_txn()? in get_api_key and list_api_keys
ReaderBegin(r) ==
    /\ readers[r].pc = "idle"
    /\ \E c \in ReaderCalls :
         readers' =
           [ readers EXCEPT
               ![r] = [ IdleReader EXCEPT
                          !.pc = "open", !.call = c,
                          !.snap = ReadSnapshot(keys, inv, writers),
                          !.during =
                              IF \E w \in Writers : TxnOpen(writers, w)
                              THEN CHOOSE w \in Writers : TxnOpen(writers, w)
                              ELSE "none" ] ]
    /\ UNCHANGED << builderVars, keys, inv, result, cin, cout, writers, committed_puts, ctlVars >>

\* the lookup of get_api_key or the iteration of list_api_keys, in the RoTxn
ReaderRead(r) ==
    /\ readers[r].pc = "open"
    /\ LET me == readers[r]
       IN  readers' =
             [ readers EXCEPT
                 ![r].pc = "idle",
                 ![r].done = TRUE,
                 ![r].snap = IdleReader.snap,
                 ![r].value =
                     IF me.call.op = "get"
                     THEN get_api_key(me.snap.keys, me.call.cred, "none")
                     ELSE list_api_keys(me.snap.keys, "none") ]
    /\ UNCHANGED << builderVars, keys, inv, result, cin, cout, writers, committed_puts, ctlVars >>

NextConc ==
    \/ \E w \in Writers :
          \/ WriterCall(w)
          \/ WriterBegin(w)
          \/ WriterPrimary(w)
          \/ WriterPurge(w)
          \/ WriterFill(w)
          \/ WriterCommit(w)
          \/ WriterFail(w)
    \/ \E r \in Readers : ReaderBegin(r) \/ ReaderRead(r)

SpecConc == Init /\ [][NextConc]_vars

\* ------------------------------------------------------------------------
\* IndexController::register_update (index_controller/mod.rs 295-348) with
\* the stores it calls.  The task store (meilisearch_tasks), the update
\* file store and the document readers are not part of the sources at
\* hand; they follow the specification:
\*   TaskStore::register assigns the next TaskId and stores the Task with
\*     status enqueued in one write transaction, one such transaction at a
\*     time; a process stop before the commit leaves no trace of it;
\*   UpdateFileStore::new_update gives a fresh content uuid and an open
\*     handle; the content is in the store under that uuid once persist()
\*     is called, and a handle dropped without persist() leaves nothing;
\*   read_json / read_csv / read_ndjson write one normalized document per
\*     document of the payload and return their number, or an error on
\*     input that is not in the format.
\* ------------------------------------------------------------------------

\* registrations that may commit
MaxTasks == 2

\* update files that may be created
MaxUuids == 2

Formats == { "json", "csv", "ndjson" }

\* payload bytes: one byte stands for a document written in a format
\* ("j", "c", "n"); a space is white space between documents
DocByte(format) ==
    CASE format = "json"   -> 106
      [] format = "csv"    -> 99
      [] format = "ndjson" -> 110
      [] OTHER             -> 0

Space == 32

\* a document as the readers write it to the update file ("D")
NormalizedDoc == 68

\* items of the payload stream: Ok(bytes) or Err(PayloadError); a stream
\* that stops producing items without ending is Pending from then on
ChunkOk(bytes) == [ ok |-> TRUE, pending |-> FALSE, bytes |-> bytes ]

ChunkErr == [ ok |-> FALSE, pending |-> FALSE, bytes |-> << >> ]

ChunkPending == [ ok |-> TRUE, pending |-> TRUE, bytes |-> << >> ]

\* the first item of a stream that is not Ok(bytes); 0 when it ends
\* without one
FirstStop(chunks) ==
    LET stops == { i \in DOMAIN chunks : ~chunks[i].ok \/ chunks[i].pending }
    IN  IF stops = {} THEN 0
        ELSE CHOOSE i \in stops : \A j \in stops : i <= j

\* read_json / read_csv / read_ndjson(reader, &mut *update_file): what was
\* written to the file and the result
RECURSIVE read_documents(_, _, _)
read_documents(format, buffer, written) ==
    IF buffer = << >> THEN [ written |-> written, result |-> "Ok" ]
    ELSE IF buffer[1] = Space
    THEN read_documents(format, Tail(buffer), written)
    ELSE IF buffer[1] = DocByte(format)
    THEN read_documents(format, Tail(buffer), Append(written, NormalizedDoc))
    ELSE [ written |-> written, result |-> "Err" ]

Addition(payload, primary_key, method, format) ==
    [ kind |-> "DocumentAddition", ids |-> << >>, payload |-> payload,
      primary_key |-> primary_key, method |-> method, format |-> format ]

Plain(kind, ids) == [ NoUpdate EXCEPT !.kind = kind, !.ids = ids ]

\* the calls made: each kind of update; additions with three documents in
\* two chunks, one document, no chunk, one empty chunk, a chunk that is not
\* in the format, a transport error after a chunk, and a stream that
\* stalls after a chunk
UpdateInputs ==
    { [ uid |-> "movies", update |-> Plain("DeleteDocuments", << "1" >>) ],
      [ uid |-> "books",  update |-> Plain("ClearDocuments", << >>) ],
      [ uid |-> "movies", update |-> Plain("Settings", << >>) ],
      [ uid |-> "books",  update |-> Plain("DeleteIndex", << >>) ],
      [ uid |-> "movies",
        update |-> Addition(<< ChunkOk(<< 110, Space >>), ChunkOk(<< 110, 110 >>) >>,
                            None, "ReplaceDocuments", "ndjson") ],
      [ uid |-> "books",
        update |-> Addition(<< ChunkOk(<< 106 >>) >>,
                            Some("id"), "UpdateDocuments", "json") ],
      [ uid |-> "books",
        update |-> Addition(<< >>, None, "ReplaceDocuments", "json") ],
      [ uid |-> "movies",
        update |-> Addition(<< ChunkOk(<< >>) >>,
                            Some("id"), "ReplaceDocuments", "csv") ],
      [ uid |-> "movies",
        update |-> Addition(<< ChunkOk(<< 99, 99 >>), ChunkOk(<< 106 >>) >>,
                            None, "ReplaceDocuments", "csv") ],
      [ uid |-> "books",
        update |-> Addition(<< ChunkOk(<< 110 >>), ChunkErr >>,
                            None, "UpdateDocuments", "ndjson") ],
      [ uid |-> "movies",
        update |-> Addition(<< ChunkOk(<< 106 >>), ChunkPending >>,
                            None, "ReplaceDocuments", "json") ] }

\* the first caller makes any of these calls; the second, which runs
\* concurrently with it, clears an index or adds three documents
InputsOf(q) ==
    IF q = "q1" THEN UpdateInputs
    ELSE { in \in UpdateInputs :
             \/ in.update.kind = "ClearDocuments"
             \/ in.update.format = "ndjson" /\ in.update.method = "ReplaceDocuments" }

\* the bytes of the chunks, in order
RECURSIVE Concat(_)
Concat(chunks) ==
    IF chunks = << >> THEN << >>
    ELSE chunks[1].bytes \o Concat(Tail(chunks))

\* a panic unwinds the call: the handle it holds is dropped
Panic(me, at) ==
    [ me EXCEPT !.pc = "done", !.outcome = "panic", !.panic_at = at,
                !.file = None ]

\* lines 300-304 and 342: the arm of the match
TaskContentOf(update) ==
    CASE update.kind = "DeleteDocuments" ->
           [ NoContent EXCEPT !.kind = "DocumentDeletion", !.deletion = "Ids",
                              !.ids = update.ids ]
      [] update.kind = "ClearDocuments" ->
           [ NoContent EXCEPT !.kind = "DocumentDeletion", !.deletion = "Clear" ]
      [] update.kind = "Settings" ->
           [ NoContent EXCEPT !.kind = "SettingsUpdate" ]
      [] OTHER ->
           [ NoContent EXCEPT !.kind = "IndexDeletion" ]

\* variant: the count is the number of bytes received
DocumentAdditionContent_count_bytes(me) ==
    [ NoContent EXCEPT !.kind = "DocumentAddition",
                       !.content_uuid = me.content_uuid,
                       !.merge_strategy = "ReplaceDocument",
                       !.primary_key = me.update.primary_key,
                       !.documents_count = Len(me.buffer) ]

\* lines 335-340
DocumentAdditionContent(me) ==
    [ NoContent EXCEPT !.kind = "DocumentAddition",
                       !.content_uuid = me.content_uuid,
                       !.merge_strategy = "ReplaceDocument",
                       !.primary_key = me.update.primary_key,
                       !.documents_count = me.documents_count ]

\* variant: every Task is registered for the index "movies"
RegisterArgs_fixed_uid(me) ==
    [ uid |-> "movies",
      content |-> IF me.update.kind = "DocumentAddition"
                  THEN DocumentAdditionContent(me)
                  ELSE TaskContentOf(me.update) ]

\* line 345: the arguments of self.task_store.register(uid, content)
RegisterArgs(me) ==
    [ uid |-> me.uid,
      content |-> IF me.update.kind = "DocumentAddition"
                  THEN DocumentAdditionContent(me)
                  ELSE TaskContentOf(me.update) ]

\* variant: the update file is not persisted
AfterDecode_no_persist(decoded) == IF decoded = "Ok" THEN "register" ELSE "panic"

\* variant: the readers' error is ignored
AfterDecode_ignore_error(decoded) == "persist"

\* lines 323-329: .unwrap() on the readers' result, then persist
AfterDecode(decoded) == IF decoded = "Ok" THEN "persist" ELSE "panic"

\* lines 315-333: the blocking task ends and hands `r` to the call that
\* awaits its JoinHandle; when that future was dropped nobody awaits it and
\* the result, or the panic, of the task is lost
Joined(me, r) ==
    IF me.cancelled
    THEN [ IdleRequest EXCEPT !.pc = "done", !.outcome = "cancelled",
                              !.cancelled = TRUE, !.uid = me.uid,
                              !.update = me.update,
                              !.content_uuid = r.content_uuid,
                              !.persisted = r.persisted ]
    ELSE r

\* variant: register transactions are not serialized
TaskStoreFree_unguarded(holder) == TRUE

\* TaskStore::register waits for the store's write transaction
TaskStoreFree(holder) == holder = "none"

\* the Task that TaskStore::register stores
NewTask(id, args) ==
    [ id |-> id, index_uid |-> args.uid, content |-> args.content,
      status |-> "enqueued" ]

\* a caller enters register_update; lines 300-304 and 342 pick the arm.
\* Calls are made while a TaskId is left, and additions while a content
\* uuid is left.
RegisterUpdate(q) ==
    /\ requests[q].pc \in { "idle", "done" }
    /\ next_task_id < MaxTasks
    /\ \E in \in InputsOf(q) :
         /\ in.update.kind = "DocumentAddition" => next_uuid <= MaxUuids
         /\ requests' =
           [ requests EXCEPT
               ![q] = [ IdleRequest EXCEPT
                          !.pc = IF in.update.kind = "DocumentAddition"
                                 THEN "drain" ELSE "register",
                          !.uid = in.uid, !.update = in.update ] ]
    /\ UNCHANGED << builderVars, storeVars, reply, tasks, next_task_id, task_txn, update_files,
                    next_uuid, commit_log >>

\* lines 305-313: the stream is read to its end into buffer; an Err item
\* is todo!(); on a stream that stalls, payload.next().await does not
\* return and the call stays in the loop with what it has read
DrainPayload(q) ==
    /\ requests[q].pc = "drain"
    /\ LET me == requests[q]
           chunks == me.update.payload
           stop == FirstStop(chunks)
       IN  requests' =
             [ requests EXCEPT
                 ![q] = IF stop = 0
                        THEN [ me EXCEPT !.buffer = Concat(chunks),
                                         !.pc = "new_update" ]
                        ELSE IF chunks[stop].pending
                        THEN [ me EXCEPT
                                 !.buffer = Concat(SubSeq(chunks, 1, stop - 1)),
                                 !.pc = "stalled" ]
                        ELSE Panic(me, "payload error") ]
    /\ UNCHANGED << builderVars, storeVars, reply, tasks, next_task_id, task_txn, update_files,
                    next_uuid, commit_log >>

\* line 314: self.update_file_store.new_update().unwrap()
NewUpdate(q) ==
    /\ requests[q].pc = "new_update"
    /\ next_uuid <= MaxUuids
    /\ requests' = [ requests EXCEPT ![q].content_uuid = next_uuid,
                                     ![q].file = Some(<< >>),
                                     ![q].pc = "decode" ]
    /\ next_uuid' = next_uuid + 1
    /\ UNCHANGED << builderVars, storeVars, reply, tasks, next_task_id, task_txn, update_files,
                    commit_log >>

\* lines 315-327, in the blocking task: an empty buffer is todo!(), else
\* the reader of the format writes to the update file
DecodePayload(q) ==
    /\ requests[q].pc = "decode"
    /\ LET me == requests[q]
           d == read_documents(me.update.format, me.buffer, << >>)
       IN  requests' =
             [ requests EXCEPT
                 ![q] = IF me.buffer = << >>
                        THEN Joined(me, Panic(me, "empty payload"))
                        ELSE [ me EXCEPT
                                 !.file = Some(d.written),
                                 !.decoded = d.result,
                                 !.written = Len(d.written),
                                 !.documents_count =
                                     IF d.result = "Ok" THEN Len(d.written) ELSE 0,
                                 !.pc = AfterDecode(d.result) ] ]
    /\ UNCHANGED << builderVars, storeVars, reply, tasks, next_task_id, task_txn, update_files,
                    next_uuid, commit_log >>

\* lines 324-326 and 333: unwrap() of a reader's Err panics in the blocking
\* task, and the unwrap() of its JoinError panics in register_update
DecodePanic(q) ==
    /\ requests[q].pc = "panic"
    /\ requests' = [ requests EXCEPT
                       ![q] = Joined(requests[q], Panic(requests[q], "decode")) ]
    /\ UNCHANGED << builderVars, storeVars, reply, tasks, next_task_id, task_txn, update_files,
                    next_uuid, commit_log >>

\* line 329: update_file.persist().unwrap()
PersistUpdateFile(q) ==
    /\ requests[q].pc = "persist"
    /\ LET me == requests[q]
       IN  /\ update_files' = DbPut(update_files, me.content_uuid, me.file[1])
           /\ requests' =
                 [ requests EXCEPT
                     ![q] = Joined(me, [ me EXCEPT !.file = None,
                                                   !.persisted = @ + 1,
                                                   !.pc = "register" ]) ]
    /\ UNCHANGED << builderVars, storeVars, reply, tasks, next_task_id, task_txn, next_uuid,
                    commit_log >>

\* line 329: persist() returns Err and unwrap() panics in the blocking
\* task; nothing is stored under the content uuid
PersistFail(q) ==
    /\ requests[q].pc = "persist"
    /\ requests' = [ requests EXCEPT
                       ![q] = Joined(requests[q], Panic(requests[q], "persist")) ]
    /\ UNCHANGED << builderVars, storeVars, reply, tasks, next_task_id, task_txn, update_files,
                    next_uuid, commit_log >>

\* line 345, first half: TaskStore::register opens its write transaction
\* and takes the next TaskId
RegisterBegin(q) ==
    /\ requests[q].pc = "register"
    /\ TaskStoreFree(task_txn)
    /\ next_task_id < MaxTasks
    /\ task_txn' = q
    /\ requests' = [ requests EXCEPT ![q].task_id = next_task_id,
                                     ![q].pc = "commit" ]
    /\ UNCHANGED << builderVars, storeVars, reply, tasks, next_task_id, update_files, next_uuid,
                    commit_log >>

\* line 345, second half, and 347: the Task and the advanced TaskId are
\* committed together and the Task is returned
RegisterCommit(q) ==
    /\ requests[q].pc = "commit"
    /\ LET me == requests[q]
           task == NewTask(me.task_id, RegisterArgs(me))
       IN  /\ tasks' = DbPut(tasks, task.id, task)
           /\ next_task_id' = task.id + 1
           /\ commit_log' = Append(commit_log, task.id)
           /\ requests' = [ requests EXCEPT ![q].pc = "done",
                                            ![q].outcome = "Ok",
                                            ![q].task = Some(task),
                                            ![q].registered = @ + 1 ]
    /\ task_txn' = "none"
    /\ UNCHANGED << builderVars, storeVars, reply, update_files, next_uuid >>

\* line 345: register returns Err (the transaction is aborted) and
\* unwrap() panics
RegisterFail(q) ==
    /\ requests[q].pc = "commit"
    /\ requests' = [ requests EXCEPT ![q] = Panic(requests[q], "register") ]
    /\ task_txn' = "none"
    /\ UNCHANGED << builderVars, storeVars, reply, tasks, next_task_id, update_files, next_uuid,
                    commit_log >>

\* the future of a DocumentAddition call is dropped at one of its awaits
\* (the caller disconnected): at payload.next().await (line 306) the call
\* ends and its buffer is dropped; at the await of the blocking task
\* (lines 315-333) the JoinHandle is dropped and the task, which cannot be
\* aborted, runs on; at task_store.register(..).await (line 345), before
\* the store's transaction, register is not run
Cancel(q) ==
    /\ requests[q].update.kind = "DocumentAddition"
    /\ ~requests[q].cancelled
    /\ requests[q].pc \in { "drain", "stalled", "decode", "panic", "persist",
                             "register" }
    /\ LET me == requests[q]
       IN  requests' =
             [ requests EXCEPT
                 ![q] = IF me.pc \in { "decode", "panic", "persist" }
                        THEN [ me EXCEPT !.cancelled = TRUE ]
                        ELSE Joined([ me EXCEPT !.cancelled = TRUE ], me) ]
    /\ UNCHANGED << builderVars, storeVars, reply, tasks, next_task_id, task_txn, update_files,
                    next_uuid, commit_log >>

\* the process stops and is started again: the calls in progress, their
\* open handles and an uncommitted transaction are gone; what was committed
\* or persisted stays
Crash ==
    /\ \E q \in Requests : requests[q].pc \notin { "idle", "done" }
    /\ requests' =
          [ q \in Requests |->
              IF requests[q].pc \in { "idle", "done" } THEN IdleRequest
              ELSE [ IdleRequest EXCEPT !.outcome = "crashed",
                                        !.panic_at = requests[q].pc ] ]
    /\ task_txn' = "none"
    /\ UNCHANGED << builderVars, storeVars, reply, tasks, next_task_id, update_files, next_uuid,
                    commit_log >>

NextCtl ==
    \/ \E q \in Requests :
          \/ RegisterUpdate(q)
          \/ DrainPayload(q)
          \/ NewUpdate(q)
          \/ DecodePayload(q)
          \/ DecodePanic(q)
          \/ PersistUpdateFile(q)
          \/ PersistFail(q)
          \/ RegisterBegin(q)
          \/ RegisterCommit(q)
          \/ RegisterFail(q)
          \/ Cancel(q)
    \/ Crash

SpecCtl == Init /\ [][NextCtl]_vars

\* what the runtime does for a call without anything from outside: it
\* polls the future and runs the blocking task until they end
RequestStep(q) ==
    \/ DrainPayload(q)
    \/ NewUpdate(q)
    \/ DecodePayload(q)
    \/ DecodePanic(q)
    \/ PersistUpdateFile(q)
    \/ RegisterBegin(q)
    \/ RegisterCommit(q)

\* SpecCtl with calls that are not left waiting for the runtime
SpecCtlLive == SpecCtl /\ \A q \in Requests : WF_vars(RequestStep(q))

\* ------------------------------------------------------------------------
\* IndexController::get_task and list_tasks (mod.rs 350-358), and
\* register_update as one call, on a controller opened on a db_path that
\* holds Tasks registered earlier.
\*
\* TaskStore::get_task, TaskStore::list_tasks and TaskFilter are not in the
\* source tree; they are modelled as specified:
\*   a filter narrows by index: a Task passes it when its index uid is one
\*     of the filter's; no filter lets every Task pass;
\*   get_task(id, filter) is Ok(Some(task)) when the Task exists and passes
\*     the filter, and Ok(None) when it does not exist or does not pass;
\*   list_tasks(filter, limit, from) is the Tasks that pass the filter, most
\*     recent first, starting at `from` when given, at most `limit` of them.
\* ------------------------------------------------------------------------

\* the limit IndexController::list_tasks passes to the task store
LIST_LIMIT == 20

\* Tasks in the store the controller is opened on
MaxStored == 24

TaskFilters == { None, Some({ "movies" }), Some({ "books" }) }

Passes(task, filter) == filter = None \/ task.index_uid \in filter[1]

\* the ids of a set, greatest first
RECURSIVE Descending(_)
Descending(S) ==
    IF S = {} THEN << >>
    ELSE LET m == CHOOSE x \in S : \A y \in S : y <= x
         IN  << m >> \o Descending(S \ { m })

TaskStore_get_task(ts, id, filter) ==
    IF id \in DOMAIN ts /\ Passes(ts[id], filter) THEN Some(ts[id]) ELSE None

TaskStore_list_tasks(ts, filter, limit, from) ==
    LET ids == { id \in DOMAIN ts :
                   /\ Passes(ts[id], filter)
                   /\ from # None => id <= from[1] }
        order == Descending(ids)
        n == IF Len(order) <= limit THEN Len(order) ELSE limit
    IN  [ i \in 1 .. n |-> ts[order[i]] ]

\* variant: a Task that does not pass the filter is reported as such
get_task_tells_filtered(ts, id, filter, fail) ==
    IF fail = "store"
    THEN [ op |-> "get_task", arg |-> << id, filter >>, outcome |-> "panic",
           panic_at |-> "store", value |-> << >> ]
    ELSE IF id \in DOMAIN ts /\ ~Passes(ts[id], filter)
    THEN [ op |-> "get_task", arg |-> << id, filter >>, outcome |-> "panic",
           panic_at |-> "filtered", value |-> << >> ]
    ELSE LET found == TaskStore_get_task(ts, id, filter)
         IN  IF found = None
             THEN [ op |-> "get_task", arg |-> << id, filter >>,
                    outcome |-> "panic", panic_at |-> "none found",
                    value |-> << >> ]
             ELSE [ op |-> "get_task", arg |-> << id, filter >>, outcome |-> "Ok",
                    panic_at |-> "none", value |-> found ]

\* lines 350-353: self.task_store.get_task(id, filter).await.unwrap()
\* .unwrap(): an Err of the store and a None both panic
get_task(ts, id, filter, fail) ==
    IF fail = "store"
    THEN [ op |-> "get_task", arg |-> << id, filter >>, outcome |-> "panic",
           panic_at |-> "store", value |-> << >> ]
    ELSE LET found == TaskStore_get_task(ts, id, filter)
         IN  IF found = None
             THEN [ op |-> "get_task", arg |-> << id, filter >>,
                    outcome |-> "panic", panic_at |-> "none found",
                    value |-> << >> ]
             ELSE [ op |-> "get_task", arg |-> << id, filter >>, outcome |-> "Ok",
                    panic_at |-> "none", value |-> found ]

\* variant: one more Task than the limit is asked for
ListTasksArgs_one_more(filter) ==
    [ filter |-> filter, limit |-> LIST_LIMIT + 1, from |-> None ]

\* line 356: the arguments of self.task_store.list_tasks(filter, 20, None)
ListTasksArgs(filter) ==
    [ filter |-> filter, limit |-> LIST_LIMIT, from |-> None ]

\* lines 355-358: .unwrap() of the store's result, then Ok(tasks)
list_tasks(ts, filter, fail) ==
    IF fail = "store"
    THEN [ op |-> "list_tasks", arg |-> << filter >>, outcome |-> "panic",
           panic_at |-> "store", value |-> << >> ]
    ELSE LET a == ListTasksArgs(filter)
         IN  [ op |-> "list_tasks", arg |-> << filter >>, outcome |-> "Ok",
               panic_at |-> "none",
               value |-> TaskStore_list_tasks(ts, a.filter, a.limit, a.from) ]

\* how a register_update call ended, as the caller sees it
Registered(in, outcome, panic_at, value) ==
    [ op |-> "register_update", arg |-> << in.uid, in.update.kind >>,
      outcome |-> outcome, panic_at |-> panic_at, value |-> value ]

\* variant: registering a DeleteIndex drops the Tasks of that index
register_update_drops_tasks(ts, files, next_id, uuid, in, fail) ==
    LET task == NewTask(next_id,
                        RegisterArgs([ IdleRequest EXCEPT !.uid = in.uid,
                                                          !.update = in.update ]))
        kept == { id \in DOMAIN ts : ts[id].index_uid # in.uid }
    IN  [ tasks |-> DbPut([ id \in kept |-> ts[id] ], next_id, task),
          update_files |-> files, next_task_id |-> next_id + 1,
          next_uuid |-> uuid, reply |-> Registered(in, "Ok", "none", Some(task)) ]

\* lines 295-348 run from the call to its end by one caller; `fail` names
\* the store call that returns Err in this run ("none": no failure)
register_update(ts, files, next_id, uuid, in, fail) ==
    LET upd == in.update
        addition == upd.kind = "DocumentAddition"
        before == [ tasks |-> ts, update_files |-> files,
                    next_task_id |-> next_id, next_uuid |-> uuid ]
        stop == IF addition THEN FirstStop(upd.payload) ELSE 0
        buffer == IF addition /\ stop = 0 THEN Concat(upd.payload) ELSE << >>
        d == IF addition THEN read_documents(upd.format, buffer, << >>)
             ELSE [ written |-> << >>, result |-> "Ok" ]
        me == [ IdleRequest EXCEPT
                  !.uid = in.uid, !.update = upd, !.buffer = buffer,
                  !.content_uuid = IF addition THEN uuid ELSE 0,
                  !.documents_count = Len(d.written) ]
        task == NewTask(next_id, RegisterArgs(me))
        taken == IF addition THEN [ before EXCEPT !.next_uuid = uuid + 1 ]
                 ELSE before
        persisted == IF addition
                     THEN [ taken EXCEPT
                              !.update_files = DbPut(files, uuid, d.written) ]
                     ELSE before
        panic(st, at) == st @@ [ reply |-> Registered(in, "panic", at, << >>) ]
    IN  IF stop # 0 THEN panic(before, "payload error")
        ELSE IF addition /\ buffer = << >> THEN panic(taken, "empty payload")
        ELSE IF addition /\ AfterDecode(d.result) = "panic"
        THEN panic(taken, "decode")
        ELSE IF addition /\ fail = "persist" THEN panic(taken, "persist")
        ELSE IF fail = "register" THEN panic(persisted, "register")
        ELSE [ persisted EXCEPT !.tasks = DbPut(ts, next_id, task),
                                !.next_task_id = next_id + 1 ]
               @@ [ reply |-> Registered(in, "Ok", "none", Some(task)) ]

\* the calls made here: a DeleteIndex, a Settings update, the addition of
\* three ndjson documents and the csv addition that does not decode
CallInputs ==
    { in \in UpdateInputs :
        \/ in.update.kind \in { "DeleteIndex", "Settings" }
        \/ /\ in.update.kind = "DocumentAddition"
           /\ in.update.format \in { "ndjson", "csv" }
           /\ in.update.method = "ReplaceDocuments"
           /\ Concat(in.update.payload) # << >>
           /\ FirstStop(in.update.payload) = 0 }

\* a Task registered by an earlier run of the server: most are of "movies",
\* every eighth of "books"; the worker has finished the even ones
StoredTask(id) ==
    [ NewTask(id, [ uid |-> IF id % 8 = 0 THEN "books" ELSE "movies",
                    content |-> TaskContentOf(Plain("ClearDocuments", << >>)) ])
        EXCEPT !.status = IF id % 2 = 0 THEN "succeeded" ELSE "enqueued" ]

\* how many Tasks the store holds when it is opened: none, one less than
\* the limit of list_tasks, the limit, and more
StoredCounts == { 0, LIST_LIMIT - 1, LIST_LIMIT, MaxStored }

\* IndexControllerBuilder::build on a db_path with a task store written
\* by an earlier run
InitTasks ==
    /\ keys = EmptyDb
    /\ inv = EmptyDb
    /\ result = NoResult
    /\ cin = NoCodecInput
    /\ cout = NoCodecOutput
    /\ InitCallers
    /\ InitBuilder
    /\ \E n \in StoredCounts :
         /\ tasks = [ id \in 0 .. (n - 1) |-> StoredTask(id) ]
         /\ next_task_id = n
    /\ task_txn = "none"
    /\ update_files = << >>
    /\ next_uuid = 1
    /\ requests = [ q \in Requests |-> IdleRequest ]
    /\ commit_log = << >>
    /\ reply = NoReply

\* one register_update call, from the call to its end
RegisterUpdateCall ==
    /\ Len(commit_log) < MaxTasks
    /\ \E in \in CallInputs :
         /\ in.update.kind = "DocumentAddition" => next_uuid <= MaxUuids
         /\ \E fail \in { "none", "persist", "register" } :
              \E r \in { register_update(tasks, update_files, next_task_id,
                                         next_uuid, in, fail) } :
                 /\ tasks' = r.tasks
                 /\ update_files' = r.update_files
                 /\ next_task_id' = r.next_task_id
                 /\ next_uuid' = r.next_uuid
                 /\ reply' = r.reply
                 /\ commit_log' = IF r.reply.outcome = "Ok"
                                  THEN Append(commit_log, next_task_id)
                                  ELSE commit_log
    /\ UNCHANGED << builderVars, storeVars, task_txn, requests >>

\* the ids asked for: the two oldest, the most recent, and the first one
\* never given
GetTask ==
    \E id \in { 0, 1, next_task_id - 1, next_task_id } \cap (0 .. next_task_id) :
      \E filter \in TaskFilters :
        \E fail \in { "none", "store" } :
          /\ reply' = get_task(tasks, id, filter, fail)
          /\ UNCHANGED << builderVars, storeVars, tasks, next_task_id, task_txn, update_files,
                          next_uuid, requests, commit_log >>

ListTasks ==
    \E filter \in TaskFilters :
      \E fail \in { "none", "store" } :
        /\ reply' = list_tasks(tasks, filter, fail)
        /\ UNCHANGED << builderVars, storeVars, tasks, next_task_id, task_txn, update_files,
                        next_uuid, requests, commit_log >>

NextTasks == RegisterUpdateCall \/ GetTask \/ ListTasks

SpecTasks == InitTasks /\ [][NextTasks]_vars

\* ------------------------------------------------------------------------
\* Configuring and building the controller
\* ------------------------------------------------------------------------

\* self.max_update_store_size.replace(max_update_store_size)
set_max_update_store_size ==
    \E size \in Sizes :
      /\ builder' = [ builder EXCEPT !.max_update_store_size = << size >> ]
      /\ UNCHANGED << storeVars, ctlVars, built >>

\* self.max_index_size.replace(size)
set_max_index_size ==
    \E size \in Sizes :
      /\ builder' = [ builder EXCEPT !.max_index_size = << size >> ]
      /\ UNCHANGED << storeVars, ctlVars, built >>

\* self.import_snapshot.replace(import_snapshot)
set_import_snapshot ==
    /\ builder' = [ builder EXCEPT !.import_snapshot = TRUE ]
    /\ UNCHANGED << storeVars, ctlVars, built >>

\* self.dump_src.replace(dump_src)
set_dump_src ==
    /\ builder' = [ builder EXCEPT !.dump_src = TRUE ]
    /\ UNCHANGED << storeVars, ctlVars, built >>

\* build takes the builder by value; the next one comes from
\* IndexController::builder()
Build ==
    \E fail \in BuildFails(builder) :
      /\ built' = build(builder, fail)
      /\ builder' = IndexControllerBuilder_default
      /\ UNCHANGED << storeVars, ctlVars >>

NextBuilder ==
    \/ set_max_update_store_size
    \/ set_max_index_size
    \/ set_import_snapshot
    \/ set_dump_src
    \/ Build

SpecBuilder == Init /\ [][NextBuilder]_vars

\* ------------------------------------------------------------------------
\* Helpers of the properties
\* ------------------------------------------------------------------------

Range(s) == { s[i] : i \in DOMAIN s }

\* the inverted entries of one id
InvOfId(iv, id) == [ k \in PrefixKeys(iv, id) |-> iv[k] ]

\* the inverted entries a Key yields on an empty index
IndexOf(key) ==
    PutAll(EmptyDb, PutEntries(key),
           SerdeJsonCodec_bytes_encode_DateTime(key.expires_at))

PutOk == result.op = "put" /\ result.status = "Ok"

DeleteOk == result.op = "delete" /\ result.status = "Ok"

\* ------------------------------------------------------------------------
\* C1: after a committed put_api_key(k), get_api_key with the credential
\* derived from k.id (under any master key) returns a Key with k's actions
\* and indexes, and list_api_keys holds exactly one record with k.id.
\* ------------------------------------------------------------------------
C1_PutThenGetAndList ==
    PutOk =>
      LET k == result.value
          l == list_api_keys(keys, "none")
      IN  /\ \A m \in MasterKeys :
                LET g == get_api_key(keys, generate_key(m, k.id), "none")
                IN  /\ g.status = "Ok"
                    /\ g.value # None
                    /\ g.value[1].actions = k.actions
                    /\ g.value[1].indexes = k.indexes
          /\ l.status = "Ok"
          /\ Cardinality({ i \in DOMAIN l.value : l.value[i].id = k.id }) = 1

\* a put that replaced an existing record while another id is stored too
C1_Witness ==
    /\ PutOk
    /\ result.pre.had
    /\ Cardinality(DOMAIN keys) = 2
    /\ Len(result.value.indexes) = 2

\* ------------------------------------------------------------------------
\* C2: after put_api_key(k) then put_api_key(k') with the same id, the
\* inverted entries of that id are exactly those built from k'; nothing of
\* k is left.
\* ------------------------------------------------------------------------
C2_NoStaleEntries ==
    PutOk => InvOfId(inv, result.value.id) = IndexOf(result.value)

\* the second put purged entries of the first that it did not write again
C2_Witness ==
    /\ PutOk
    /\ result.pre.had
    /\ result.pre.stale >= 2
    /\ DOMAIN IndexOf(result.value) # {}

\* ------------------------------------------------------------------------
\* C3: after a committed delete_api_key, get_api_key for the same
\* credential returns none and no inverted entry starts with the id;
\* the call returns true exactly when the primary record existed.
\* ------------------------------------------------------------------------
C3_DeleteRemovesAll ==
    DeleteOk =>
      /\ result.value = result.pre.had
      /\ Len(result.arg) >= KEY_ID_LENGTH =>
           /\ get_api_key(keys, result.arg, "none").status = "Ok"
           /\ get_api_key(keys, result.arg, "none").value = None
           /\ PrefixKeys(inv, IdOf(result.arg)) = {}

\* a delete of a Key that had several inverted entries
C3_Witness ==
    /\ DeleteOk
    /\ result.value = TRUE
    /\ result.pre.purged >= 4

\* ------------------------------------------------------------------------
\* C4: after put_api_key(k) the inverted entries of k.id are those of the
\* index-build rule: with "*" among k.indexes one entry (id, action, None)
\* per distinct action and none with a scope; otherwise one entry
\* (id, action, Some(scope)) per distinct action and distinct index and none
\* with None; each with value k.expires_at.
\* ------------------------------------------------------------------------
RuleEntries(key) ==
    IF Star \in Range(key.indexes)
    THEN { << key.id, a, None >> : a \in Range(key.actions) }
    ELSE { << key.id, a, Some(s) >> :
             a \in Range(key.actions), s \in Range(key.indexes) }

C4_IndexBuildRule ==
    PutOk =>
      LET k == result.value
          stored == PrefixKeys(inv, k.id)
      IN  /\ { ActionKeyIdCodec_bytes_decode(b) : b \in stored }
                = { Some(e) : e \in RuleEntries(k) }
          /\ Cardinality(stored) = Cardinality(RuleEntries(k))
          /\ \A b \in stored :
                inv[b] = SerdeJsonCodec_bytes_encode_DateTime(k.expires_at)

\* ------------------------------------------------------------------------
\* C5: put_api_key is atomic and not retried: a call in which an engine
\* call fails returns an error after one write transaction and leaves both
\* tables as they were, and the committed tables never hold a primary
\* record without exactly its own inverted entries, or entries without a
\* record.
\* ------------------------------------------------------------------------
Consistent(ks, iv) ==
    /\ \A id \in DOMAIN ks :
          LET d == SerdeJsonCodec_bytes_decode_Key(ks[id])
          IN  /\ d # None
              /\ d[1].id = id
              /\ InvOfId(iv, id) = IndexOf(d[1])
    /\ \A b \in DOMAIN iv : \E id \in DOMAIN ks : IsPrefix(id, b)

C5_AtomicNoRetry ==
    [][ /\ result'.status = "Err" => (keys' = keys /\ inv' = inv)
        /\ result'.op \in { "put", "delete" } => result'.txns = 1
        /\ Consistent(keys', inv') ]_vars

\* a put that failed at commit, after it had written in its transaction
C5_Witness ==
    /\ result.op = "put"
    /\ result.status = "Err"
    /\ result.error = "commit"
    /\ result.dirty
    /\ DOMAIN keys # {}

\* ------------------------------------------------------------------------
\* C6: a Key whose indexes contain the empty string is rejected by
\* put_api_key, so no stored entry of a scoped Key has the bytes of the
\* wildcard entry of the same id and action.
\* ------------------------------------------------------------------------
C6_EmptyScopeRejected ==
    /\ PutOk => IxEmpty \notin Range(result.value.indexes)
    /\ \A id \in DOMAIN keys :
          LET d == SerdeJsonCodec_bytes_decode_Key(keys[id])
          IN  (d # None /\ Star \notin Range(d[1].indexes)) =>
                \A a \in Actions :
                  ActionKeyIdCodec_bytes_encode(id, a, None) \notin DOMAIN inv

\* ------------------------------------------------------------------------
\* C7: decoding the encoding of (id, action, None) or of
\* (id, action, Some(scope)) with a non-empty valid UTF-8 scope gives the
\* item back, and two different such items never encode to the same bytes.
\* ------------------------------------------------------------------------
InCodecDomain(item) == item[3] = None \/ item[3][1] # << >>

C7_CodecRoundTrip ==
    (cout.done /\ cin.kind = "items" /\ InCodecDomain(cin.x)) =>
      /\ cout.dec = Some(cin.x)
      /\ (InCodecDomain(cin.y) /\ cout.enc_x = cout.enc_y) => cin.x = cin.y

\* a two-byte UTF-8 scope, and a second item that differs only in scope
C7_Witness ==
    /\ cout.done
    /\ cin.kind = "items"
    /\ cin.x[3] = Some(<< 195, 169 >>)
    /\ cin.y[3] = None
    /\ cin.x[1] = cin.y[1]
    /\ cin.x[2] = cin.y[2]

\* ------------------------------------------------------------------------
\* C8: decoding takes bytes 1-8 as id and byte 9 as action code; it fails
\* with a decoding error on fewer than 9 bytes, on an unknown action code
\* and on a tail that is not UTF-8; 9 bytes give scope None and more valid
\* bytes give Some(scope).
\* ------------------------------------------------------------------------
C8_DecodeRejectsMalformed ==
    (cout.done /\ cin.kind = "bytes") =>
      LET b == cin.b
          n == Len(b)
          known == n >= KEY_ID_LENGTH + 1 /\ ActionFromRepr(b[KEY_ID_LENGTH + 1]) # None
          rest == SubSeq(b, KEY_ID_LENGTH + 2, n)
          id == SubSeq(b, 1, KEY_ID_LENGTH)
      IN  /\ n < KEY_ID_LENGTH + 1 => cout.dec = None
          /\ (n >= KEY_ID_LENGTH + 1 /\ ~known) => cout.dec = None
          /\ (n > KEY_ID_LENGTH + 1 /\ ~IsUtf8(rest)) => cout.dec = None
          /\ (n = KEY_ID_LENGTH + 1 /\ known) =>
                cout.dec = Some(<< id, ActionFromRepr(b[KEY_ID_LENGTH + 1])[1], None >>)
          /\ (n > KEY_ID_LENGTH + 1 /\ known /\ IsUtf8(rest)) =>
                cout.dec = Some(<< id, ActionFromRepr(b[KEY_ID_LENGTH + 1])[1],
                                   Some(rest) >>)
          /\ cout.dec = None => cout.outcome = "decoding"

\* a key with a known action code whose tail is not UTF-8
C8_Witness ==
    /\ cout.done
    /\ cin.kind = "bytes"
    /\ Len(cin.b) = KEY_ID_LENGTH + 1 + MaxScopeLen
    /\ ActionFromRepr(cin.b[KEY_ID_LENGTH + 1]) # None
    /\ cout.dec = None
    /\ cout.outcome = "decoding"

\* ------------------------------------------------------------------------
\* C9: an operation that visits a primary record that does not deserialize
\* (get_api_key, list_api_keys) or an inverted key that does not decode
\* (the purge of put_api_key and delete_api_key) returns a storage fault;
\* the entry is never omitted, ignored or silently deleted.
\* ------------------------------------------------------------------------
ReadsReportMalformed ==
    /\ (result.op = "get" /\ result.status = "Ok"
          /\ IdOf(result.arg) \in DOMAIN keys) =>
          /\ SerdeJsonCodec_bytes_decode_Key(keys[IdOf(result.arg)]) # None
          /\ result.value = SerdeJsonCodec_bytes_decode_Key(keys[IdOf(result.arg)])
    /\ (result.op = "get" /\ result.status = "Err"
          /\ result.error # "read_txn") =>
          /\ result.error = "decoding"
          /\ SerdeJsonCodec_bytes_decode_Key(keys[IdOf(result.arg)]) = None
    /\ (result.op = "list" /\ result.status = "Ok") =>
          /\ Len(result.value) = Cardinality(DOMAIN keys)
          /\ \A id \in DOMAIN keys :
                SerdeJsonCodec_bytes_decode_Key(keys[id]) # None
    /\ (result.op = "list" /\ result.status = "Err"
          /\ result.error # "read_txn") =>
          /\ result.error = "decoding"
          /\ \E id \in DOMAIN keys :
                SerdeJsonCodec_bytes_decode_Key(keys[id]) = None

\* C9 as stated
C9_NeverSilentlySkipped ==
    /\ ReadsReportMalformed
    /\ (result.op \in { "put", "delete" } /\ result.status = "Ok") =>
          result.pre.undecoded = 0

\* C9 as amended: get_api_key and list_api_keys return a decoding fault for
\* a record that does not deserialize; the purge of put_api_key and
\* delete_api_key decodes nothing, it deletes the undecodable keys under
\* the id with the others and the call succeeds.
C9_ReadsFaultPurgeDeletes ==
    /\ ReadsReportMalformed
    /\ (result.op \in { "put", "delete" } /\ result.status = "Ok"
          /\ Len(result.arg) >= KEY_ID_LENGTH) =>
          /\ \A k \in PrefixKeys(inv, IdOf(result.arg)) :
                ActionKeyIdCodec_bytes_decode(k) # None
          /\ result.pre.purged >= result.pre.undecoded

\* a put that purged undecodable keys and returned Ok, in a store whose
\* other record still makes list_api_keys fail
C9_Witness ==
    /\ PutOk
    /\ result.pre.undecoded = 3
    /\ list_api_keys(keys, "none").status = "Err"
    /\ list_api_keys(keys, "none").error = "decoding"

\* ------------------------------------------------------------------------
\* C10: not-found is a normal outcome: get_api_key returns Ok(none) and
\* delete_api_key returns Ok(false) when no record has the credential's id
\* and when the credential is shorter than an id (an engine failure aside),
\* and such a delete_api_key leaves both tables unchanged.
\* ------------------------------------------------------------------------
NotFoundIn(ks, credential) ==
    Len(credential) < KEY_ID_LENGTH \/ IdOf(credential) \notin DOMAIN ks

C10_NotFoundIsNormal ==
    [][ /\ (result'.op = "get" /\ result'.error # "read_txn"
              /\ NotFoundIn(keys, result'.arg)) =>
              (result'.status = "Ok" /\ result'.value = None)
        /\ (result'.op = "delete" /\ result'.status = "Ok"
              /\ NotFoundIn(keys, result'.arg)) =>
              (result'.value = FALSE /\ keys' = keys /\ inv' = inv)
        /\ (result'.op = "delete" /\ result'.status = "Err") =>
              result'.error \in { "write_txn", "keys.delete", "purge", "commit" }
      ]_vars

\* a delete with a 7-byte credential on a store that holds entries
C10_Witness ==
    /\ DeleteOk
    /\ result.value = FALSE
    /\ Len(result.arg) < KEY_ID_LENGTH
    /\ Cardinality(DOMAIN inv) >= 2

\* ------------------------------------------------------------------------
\* C11: the store depends only on the first 8 bytes of a credential: from
\* the same tables, two credentials with the same first 8 bytes get the
\* same get_api_key result and the same delete_api_key effect and return
\* value; and no byte string held by the tables contains a derived suffix
\* or the master key.
\* ------------------------------------------------------------------------

\* credentials as callers may present them: the derived ones, a bare id,
\* an id with a dash and nothing else, an id followed by other text
CredentialForms ==
    Credentials \cup KeyIds \cup { Id1 \o Dash, Id1 \o << 120, 120, 120 >> }

Contains(s, sub) ==
    \E i \in 0..(Len(s) - Len(sub)) : SubSeq(s, i + 1, i + Len(sub)) = sub

\* the byte strings the tables hold: the keys of both tables and, in each
\* record, the id and the index names
StoredStrings(ks, iv) ==
    (DOMAIN ks) \cup (DOMAIN iv)
      \cup UNION { { ks[id][1] } \cup Range(ks[id][3]) : id \in DOMAIN ks }

DerivedSuffix(master_key, uid) ==
    SubSeq(generate_key(master_key, uid), KEY_ID_LENGTH + 2,
           Len(generate_key(master_key, uid)))

C11_OnlyIdMatters ==
    /\ \A c1 \in CredentialForms, c2 \in CredentialForms :
          (Len(c1) >= KEY_ID_LENGTH /\ Len(c2) >= KEY_ID_LENGTH
             /\ IdOf(c1) = IdOf(c2)) =>
            /\ LET g1 == get_api_key(keys, c1, "none")
                   g2 == get_api_key(keys, c2, "none")
               IN  /\ g1.status = g2.status
                   /\ g1.error = g2.error
                   /\ g1.value = g2.value
            /\ \A fail \in DeleteFails(c1) :
                 LET d1 == delete_api_key(keys, inv, c1, fail)
                     d2 == delete_api_key(keys, inv, c2, fail)
                 IN  /\ d1.keys = d2.keys
                     /\ d1.inv = d2.inv
                     /\ d1.result.status = d2.result.status
                     /\ d1.result.value = d2.result.value
    /\ \A str \in StoredStrings(keys, inv) :
          /\ \A m \in MasterKeys \ { << >> } : ~Contains(str, m)
          /\ \A m \in MasterKeys, id \in KeyIds :
                ~Contains(str, DerivedSuffix(m, id))

\* a delete by the credential derived with master key "s" has removed the
\* record of Id1, which had inverted entries, and another record is stored
C11_Witness ==
    /\ DeleteOk
    /\ result.arg = generate_key(<< 115 >>, Id1)
    /\ result.value = TRUE
    /\ result.pre.purged >= 2
    /\ DOMAIN keys # {}

\* ------------------------------------------------------------------------
\* C12: under every interleaving of put_api_key and delete_api_key with
\* get_api_key and list_api_keys, at most one write transaction is open;
\* what a read transaction sees is the tables as some commit left them
\* (every record is of a committed put and has exactly its own inverted
\* entries: nothing of an open or aborted writer, no new record with old
\* entries, no half-finished purge); and a read that has begun can always
\* complete, whether or not a write transaction is open.
\* ------------------------------------------------------------------------
CommittedBoundary(snap) ==
    /\ Consistent(snap.keys, snap.inv)
    /\ \A id \in DOMAIN snap.keys :
          SerdeJsonCodec_bytes_decode_Key(snap.keys[id])[1] \in committed_puts

C12_SnapshotReads ==
    /\ Cardinality({ w \in Writers : TxnOpen(writers, w) }) <= 1
    /\ \A r \in Readers :
          LET me == readers[r]
          IN  /\ me.pc = "open" => CommittedBoundary(me.snap)
              /\ (me.pc = "open" /\ me.during # "none") => ENABLED ReaderRead(r)
              /\ me.done =>
                    /\ me.value.status = "Ok"
                    /\ me.call.op = "get" =>
                          (me.value.value = None
                             \/ me.value.value[1] \in committed_puts)
                    /\ me.call.op = "list" =>
                          \A i \in DOMAIN me.value.value :
                              me.value.value[i] \in committed_puts

\* a list_api_keys began and returned while w1's put of KeyB over KeyA was
\* open and had rewritten the record and purged: it returned KeyA and KeyC
C12_Witness ==
    /\ readers["r1"].done
    /\ readers["r1"].during = "w1"
    /\ readers["r1"].call.op = "list"
    /\ readers["r1"].value.value = << KeyA, KeyC >>
    /\ writers["w1"].pc = "fill"
    /\ writers["w1"].call.key = KeyB
    /\ writers["w2"].pc = "called"

\* ------------------------------------------------------------------------
\* C13: two concurrent put_api_key calls on Keys with distinct ids both
\* succeed (neither blocks the other for ever and neither fails unless an
\* engine call fails), and once both have returned list_api_keys contains
\* both records and each id has exactly its Key's inverted entries.
\* ------------------------------------------------------------------------
WriterStep(w) ==
    \/ WriterBegin(w)
    \/ WriterPrimary(w)
    \/ WriterPurge(w)
    \/ WriterFill(w)
    \/ WriterCommit(w)

C13_ConcurrentPutsBothKept ==
    /\ (\E w \in Writers : writers[w].pc # "idle") =>
          ENABLED (\E w \in Writers : WriterStep(w))
    /\ \A w \in Writers :
          LET o == Other(w)
              a == writers[w].last
              b == writers[o].last
          IN  ( /\ writers[w].pc = "idle" /\ writers[o].pc = "idle"
                /\ writers[w].conc /\ writers[o].conc
                /\ a.status = "Ok" /\ b.status = "Ok"
                /\ a.call.op = "put" /\ b.call.op = "put"
                /\ a.call.key.id # b.call.key.id ) =>
                LET l == list_api_keys(keys, "none")
                IN  /\ l.status = "Ok"
                    /\ Len(l.value) = 2
                    /\ a.call.key \in Range(l.value)
                    /\ b.call.key \in Range(l.value)
                    /\ InvOfId(inv, a.call.key.id) = IndexOf(a.call.key)
                    /\ InvOfId(inv, b.call.key.id) = IndexOf(b.call.key)

\* the puts of KeyA by w1 and of KeyC by w2 overlapped and both returned Ok
C13_Witness ==
    /\ writers["w1"].pc = "idle" /\ writers["w2"].pc = "idle"
    /\ writers["w1"].conc /\ writers["w2"].conc
    /\ writers["w1"].last = [ call |-> [ op |-> "put", key |-> KeyA, cred |-> << >> ],
                              status |-> "Ok", value |-> FALSE ]
    /\ writers["w2"].last = [ call |-> [ op |-> "put", key |-> KeyC, cred |-> << >> ],
                              status |-> "Ok", value |-> FALSE ]


\* ------------------------------------------------------------------------
\* Helpers of the properties of register_update
\* ------------------------------------------------------------------------

\* the calls that returned Ok(task)
ReturnedOk(q) == requests[q].pc = "done" /\ requests[q].outcome = "Ok"

\* ------------------------------------------------------------------------
\* C14: the TaskIds that register commits are strictly increasing in the
\* order of the commits and none is given to two Tasks: the store holds one
\* Task per commit, each under its own id, two calls that returned hold
\* different Tasks, and the id the store gives next is above all of them.
\* This holds when the process stops between taking an id and the commit.
\* ------------------------------------------------------------------------
C14_TaskIdsIncrease ==
    /\ \A i \in DOMAIN commit_log : \A j \in DOMAIN commit_log :
          i < j => commit_log[i] < commit_log[j]
    /\ Cardinality(DOMAIN tasks) = Len(commit_log)
    /\ DOMAIN tasks = Range(commit_log)
    /\ \A id \in DOMAIN tasks : tasks[id].id = id /\ id < next_task_id
    /\ \A q \in Requests :
          requests[q].pc = "commit" =>
            \A id \in DOMAIN tasks : id < requests[q].task_id
    /\ \A q \in Requests :
          ReturnedOk(q) =>
            /\ requests[q].task[1].id \in DOMAIN tasks
            /\ tasks[requests[q].task[1].id] = requests[q].task[1]
    /\ \A q1 \in Requests : \A q2 \in Requests :
          (q1 # q2 /\ ReturnedOk(q1) /\ ReturnedOk(q2)) =>
            requests[q1].task[1].id # requests[q2].task[1].id

\* one call was stopped between taking its id and the commit, the other
\* returned, and two Tasks are committed
C14_Witness ==
    /\ requests["q1"].outcome = "crashed"
    /\ requests["q1"].panic_at = "commit"
    /\ ReturnedOk("q2")
    /\ Len(commit_log) = 2
    /\ requests["q2"].task[1].id = 1

\* ------------------------------------------------------------------------
\* C15: every DocumentAddition Task in the task store (what get_task and
\* list_tasks read) references an update file that is persisted and holds
\* all its documents; a call that is at task_store.register with a
\* DocumentAddition has drained the whole payload, decoded it, persisted
\* the update file and closed its handle.
\* ------------------------------------------------------------------------
C15_BlobBeforeTask ==
    /\ \A id \in DOMAIN tasks :
          tasks[id].content.kind = "DocumentAddition" =>
            /\ tasks[id].content.content_uuid \in DOMAIN update_files
            /\ Len(update_files[tasks[id].content.content_uuid])
                  = tasks[id].content.documents_count
    /\ \A q \in Requests :
          LET me == requests[q]
          IN  (me.pc \in { "register", "commit" }
                 /\ me.update.kind = "DocumentAddition") =>
                /\ me.buffer = Concat(me.update.payload)
                /\ me.decoded = "Ok"
                /\ me.file = None
                /\ me.content_uuid \in DOMAIN update_files
                /\ Len(update_files[me.content_uuid]) = me.documents_count

\* a Task of three documents is in the store while the other call, with
\* its update file persisted, waits for the register transaction
C15_Witness ==
    /\ \E id \in DOMAIN tasks :
          /\ tasks[id].content.kind = "DocumentAddition"
          /\ tasks[id].content.documents_count = 3
          /\ update_files[tasks[id].content.content_uuid]
                = << NormalizedDoc, NormalizedDoc, NormalizedDoc >>
    /\ requests["q1"].pc = "register"
    /\ requests["q1"].update.kind = "DocumentAddition"
    /\ requests["q1"].documents_count = 1

\* ------------------------------------------------------------------------
\* C16: a register_update call that returned Ok has committed exactly one
\* Task, which is in the task store under the index uid of the call; it
\* has persisted exactly one update file when the update is a
\* DocumentAddition, and has created none when the update is
\* DeleteDocuments, ClearDocuments, Settings or DeleteIndex.
\* ------------------------------------------------------------------------
C16_OneTaskOneBlob ==
    \A q \in Requests :
      ReturnedOk(q) =>
        LET me == requests[q]
            task == me.task[1]
        IN  /\ me.registered = 1
            /\ task.id \in DOMAIN tasks
            /\ tasks[task.id] = task
            /\ task.index_uid = me.uid
            /\ \A id \in DOMAIN tasks : tasks[id] = task => id = task.id
            /\ IF me.update.kind = "DocumentAddition"
               THEN /\ me.persisted = 1
                    /\ task.content.kind = "DocumentAddition"
                    /\ task.content.content_uuid = me.content_uuid
                    /\ me.content_uuid \in DOMAIN update_files
               ELSE /\ me.update.kind \in { "DeleteDocuments", "ClearDocuments",
                                            "Settings", "DeleteIndex" }
                    /\ me.persisted = 0
                    /\ me.content_uuid = NoContent.content_uuid
                    /\ me.file = None
                    /\ task.content.kind # "DocumentAddition"

\* a DeleteIndex of "books" and an addition to "movies" both returned:
\* two Tasks and one update file
C16_Witness ==
    /\ ReturnedOk("q1")
    /\ ReturnedOk("q2")
    /\ requests["q1"].update.kind = "DeleteIndex"
    /\ requests["q1"].task[1].index_uid = "books"
    /\ requests["q2"].update.kind = "DocumentAddition"
    /\ Cardinality(DOMAIN tasks) = 2
    /\ Cardinality(DOMAIN update_files) = 1

\* the merge strategy that stands for a requested IndexDocumentsMethod
RequestedMergeStrategy(method) ==
    IF method = "UpdateDocuments" THEN "UpdateDocument" ELSE "ReplaceDocument"

\* ------------------------------------------------------------------------
\* C17: the Task returned for a DocumentAddition carries the parameters of
\* the request: its merge_strategy is the one requested (replace or update
\* of fields) and its primary_key is the requested primary key.
\* ------------------------------------------------------------------------
C17_TaskCarriesParameters ==
    \A q \in Requests :
      (ReturnedOk(q) /\ requests[q].update.kind = "DocumentAddition") =>
        LET me == requests[q]
            content == me.task[1].content
        IN  /\ content.merge_strategy = RequestedMergeStrategy(me.update.method)
            /\ content.primary_key = me.update.primary_key

\* the number of documents of a payload in a format
DocumentsIn(format, payload) ==
    LET bytes == Concat(payload)
    IN  Cardinality({ i \in DOMAIN bytes : bytes[i] = DocByte(format) })

\* the payload is not empty and all of it is in the format
ValidPayload(format, payload) ==
    LET bytes == Concat(payload)
    IN  /\ bytes # << >>
        /\ \A i \in DOMAIN payload : payload[i].ok /\ ~payload[i].pending
        /\ \A i \in DOMAIN bytes : bytes[i] \in { DocByte(format), Space }

\* ------------------------------------------------------------------------
\* C18: a DocumentAddition with a valid payload of n documents in the
\* declared format returns a Task with documents_count = n and status
\* enqueued, whose content_uuid names an update file that holds n
\* normalized documents.
\* ------------------------------------------------------------------------
C18_CountAndBlob ==
    \A q \in Requests :
      LET me == requests[q]
      IN  /\ (me.pc = "done" /\ me.update.kind = "DocumentAddition"
                /\ ValidPayload(me.update.format, me.update.payload)) =>
                \/ me.outcome = "Ok"
                \/ me.outcome = "panic" /\ me.panic_at \in { "persist", "register" }
                \/ me.outcome = "cancelled"
          /\ (ReturnedOk(q) /\ me.update.kind = "DocumentAddition") =>
            LET n == DocumentsIn(me.update.format, me.update.payload)
                task == me.task[1]
            IN  /\ ValidPayload(me.update.format, me.update.payload)
                /\ task.content.documents_count = n
                /\ task.status = "enqueued"
                /\ task.content.content_uuid \in DOMAIN update_files
                /\ update_files[task.content.content_uuid]
                      = [ i \in 1 .. n |-> NormalizedDoc ]

\* the three ndjson documents sent in two chunks
C18_Witness ==
    /\ ReturnedOk("q1")
    /\ requests["q1"].update.format = "ndjson"
    /\ Len(requests["q1"].update.payload) = 2
    /\ requests["q1"].task[1].content.documents_count = 3
    /\ Len(update_files[requests["q1"].content_uuid]) = 3

\* the stream ended without an error and without a byte
EmptyPayload(update) ==
    /\ update.kind = "DocumentAddition"
    /\ \A i \in DOMAIN update.payload :
          update.payload[i].ok /\ ~update.payload[i].pending
    /\ Concat(update.payload) = << >>

\* ------------------------------------------------------------------------
\* C19: register_update of a DocumentAddition whose stream ends with zero
\* bytes returns an error to the caller; no Task is added for the call and
\* no update file of the call is kept.
\* ------------------------------------------------------------------------
C19_EmptyPayloadIsAnError ==
    \A q \in Requests :
      LET me == requests[q]
      IN  (me.pc = "done" /\ EmptyPayload(me.update) /\ ~me.cancelled) =>
            /\ me.outcome = "Err"
            /\ me.task = None
            /\ me.registered = 0
            /\ me.content_uuid \notin DOMAIN update_files

\* ------------------------------------------------------------------------
\* C20: when the reader of the format returns an error the registration
\* is aborted: the call registers no Task, no Task references its content
\* uuid, and the partly written update file is never persisted, so nothing
\* is in the update file store under that uuid; once the call has ended
\* its handle is gone too.
\* ------------------------------------------------------------------------
C20_DecodeFailureAborts ==
    \A q \in Requests :
      LET me == requests[q]
      IN  me.decoded = "Err" =>
            /\ me.pc \in { "panic", "done" }
            /\ me.task = None
            /\ me.registered = 0
            /\ me.persisted = 0
            /\ me.content_uuid \notin DOMAIN update_files
            /\ \A id \in DOMAIN tasks :
                  tasks[id].content.content_uuid # me.content_uuid
            /\ me.pc = "done" => (me.outcome # "Ok" /\ me.file = None)

\* two csv documents were written before the chunk that is not csv
C20_Witness ==
    /\ requests["q1"].pc = "done"
    /\ requests["q1"].decoded = "Err"
    /\ requests["q1"].written = 2
    /\ requests["q1"].update.format = "csv"
    /\ requests["q1"].content_uuid \notin DOMAIN update_files
    /\ DOMAIN update_files # { }

\* the blocking task of the call failed: a reader's error, a failed
\* persist, or a panic in the task
WorkerFault(me) ==
    \/ me.decoded = "Err"
    \/ me.outcome = "panic" /\ me.panic_at \in { "empty payload", "decode", "persist" }

\* ------------------------------------------------------------------------
\* C21: a fault of the blocking task (a reader's error, a failed persist,
\* a panic in the task) is returned by register_update as an Err value;
\* the call does not panic.
\* ------------------------------------------------------------------------
C21_WorkerFaultIsErr ==
    \A q \in Requests :
      LET me == requests[q]
      IN  (me.pc = "done" /\ ~me.cancelled /\ WorkerFault(me)) =>
            me.outcome = "Err"

\* ------------------------------------------------------------------------
\* C22: when the payload stream yields an Err item, after any number of
\* chunks, register_update returns an error; no Task is registered and no
\* update file of the call is kept.
\* ------------------------------------------------------------------------
C22_TransportErrorIsErr ==
    \A q \in Requests :
      LET me == requests[q]
      IN  (me.pc = "done" /\ me.update.kind = "DocumentAddition"
             /\ FirstStop(me.update.payload) # 0
             /\ ~me.update.payload[FirstStop(me.update.payload)].ok) =>
            /\ me.outcome = "Err"
            /\ me.registered = 0
            /\ me.content_uuid \notin DOMAIN update_files

\* ------------------------------------------------------------------------
\* C23: a call whose payload stream has stopped producing chunks without
\* ending eventually returns an error, with no Task registered.
\* ------------------------------------------------------------------------
C23_StallTimesOut ==
    \A q \in Requests :
      (requests[q].pc = "stalled")
        ~> (requests[q].pc = "done" /\ requests[q].outcome = "Err"
              /\ requests[q].registered = 0)

\* ------------------------------------------------------------------------
\* C24: once a DocumentAddition call whose future was dropped before the
\* Task was registered has ended, blocking task included, no update file
\* of the call is in the store and no Task references its content uuid.
\* ------------------------------------------------------------------------
C24_CancelLeavesNoBlob ==
    \A q \in Requests :
      LET me == requests[q]
      IN  (me.pc = "done" /\ me.outcome = "cancelled") =>
            /\ me.content_uuid \notin DOMAIN update_files
            /\ \A id \in DOMAIN tasks :
                  tasks[id].content.kind = "DocumentAddition" =>
                    tasks[id].content.content_uuid # me.content_uuid

\* ------------------------------------------------------------------------
\* Helpers of the properties of get_task and list_tasks
\* ------------------------------------------------------------------------

\* the task store without the Tasks that a filter excludes
Visible(ts, filter) ==
    [ id \in { i \in DOMAIN ts : Passes(ts[i], filter) } |-> ts[id] ]

AskedIds == { 0, 1, next_task_id - 1, next_task_id } \cap (0 .. next_task_id)

\* ------------------------------------------------------------------------
\* C25: get_task(id, filter) gives the same result on two task stores that
\* differ only in Tasks the filter excludes: a Task that exists but does
\* not pass the filter is reported exactly as an id that was never
\* registered.
\* ------------------------------------------------------------------------
C25_FilteredLooksAbsent ==
    \A id \in AskedIds : \A filter \in TaskFilters :
      /\ \A fail \in { "none", "store" } :
            get_task(tasks, id, filter, fail)
              = get_task(Visible(tasks, filter), id, filter, fail)
      /\ (id \in DOMAIN tasks /\ ~Passes(tasks[id], filter)) =>
            LET there == get_task(tasks, id, filter, "none")
                never == get_task(tasks, next_task_id, filter, "none")
            IN  /\ there.outcome = never.outcome
                /\ there.panic_at = never.panic_at
                /\ there.value = never.value

\* the last call asked, with the filter "movies", for a Task of "books"
\* that is in the store
C25_Witness ==
    /\ reply.op = "get_task"
    /\ reply.arg[1] \in DOMAIN tasks
    /\ reply.arg[2] = Some({ "movies" })
    /\ tasks[reply.arg[1]].index_uid = "books"
    /\ reply.outcome = "panic"
    /\ reply.panic_at = "none found"

\* what the claim says of a list of Tasks returned for a filter, as far as
\* it stays true while the store grows
ListedWell(l, filter) ==
    /\ Len(l) <= LIST_LIMIT
    /\ \A i \in DOMAIN l : \A j \in DOMAIN l : i < j => l[i].id > l[j].id
    /\ \A i \in DOMAIN l :
          /\ Passes(l[i], filter)
          /\ l[i].id \in DOMAIN tasks
          /\ tasks[l[i].id] = l[i]

\* ------------------------------------------------------------------------
\* C26: list_tasks(filter) returns at most 20 Tasks, in strictly decreasing
\* TaskId order, each of them in the store and passing the filter, and they
\* are the most recent ones that pass it: every Task that passes the filter
\* and is not returned is older than each returned Task, and fewer than 20
\* are returned only when no more pass.
\* ------------------------------------------------------------------------
C26_ListMostRecent ==
    /\ (reply.op = "list_tasks" /\ reply.outcome = "Ok") =>
          ListedWell(reply.value, reply.arg[1])
    /\ \A filter \in TaskFilters :
          LET r == list_tasks(tasks, filter, "none")
              l == r.value
              returned == { l[i].id : i \in DOMAIN l }
              passing == { id \in DOMAIN tasks : Passes(tasks[id], filter) }
          IN  /\ r.outcome = "Ok"
              /\ ListedWell(l, filter)
              /\ \A id \in passing \ returned : \A got \in returned : id < got
              /\ Len(l) < LIST_LIMIT => returned = passing

\* 20 Tasks of "movies" were returned from a store that holds more of them
C26_Witness ==
    /\ reply.op = "list_tasks"
    /\ reply.outcome = "Ok"
    /\ reply.arg[1] = Some({ "movies" })
    /\ Len(reply.value) = LIST_LIMIT
    /\ Cardinality({ id \in DOMAIN tasks : tasks[id].index_uid = "movies" })
         > LIST_LIMIT
    /\ \E id \in DOMAIN tasks :
          tasks[id].index_uid = "books" /\ id > reply.value[LIST_LIMIT].id

\* ------------------------------------------------------------------------
\* C27: no call deletes or changes a Task or an update file: every Task in
\* the store stays under its id with the same index uid, content and
\* status, and every update file stays as it is; get_task and list_tasks
\* leave the task store and the update file store unchanged, and
\* register_update adds at most one Task and one update file.
\* ------------------------------------------------------------------------
C27_TasksOnlyAppended ==
    [][ /\ \A id \in DOMAIN tasks : id \in DOMAIN tasks' /\ tasks'[id] = tasks[id]
        /\ \A u \in DOMAIN update_files :
              u \in DOMAIN update_files' /\ update_files'[u] = update_files[u]
        /\ reply'.op \in { "get_task", "list_tasks" } =>
              /\ tasks' = tasks
              /\ update_files' = update_files
              /\ next_task_id' = next_task_id
              /\ next_uuid' = next_uuid
        /\ Cardinality(DOMAIN tasks') <= Cardinality(DOMAIN tasks) + 1
        /\ Cardinality(DOMAIN update_files')
             <= Cardinality(DOMAIN update_files) + 1 ]_vars

\* two Tasks and an update file were added to a store opened on more than
\* 20 Tasks, and a Task was then read
C27_Witness ==
    /\ Len(commit_log) >= 2
    /\ Cardinality(DOMAIN tasks) > LIST_LIMIT + 2
    /\ DOMAIN update_files # { }
    /\ reply.op = "get_task"
    /\ reply.outcome = "Ok"
    /\ reply.arg[1] = 0

\* ------------------------------------------------------------------------
\* C28: the purge of the inverted entries of an id is two-phase: while the
\* loop that advances the prefix cursor is running nothing has been
\* deleted, so every entry of the id that was there when the purge began
\* is still in the writer's transaction until the enumeration has ended.
\* ------------------------------------------------------------------------
C28_TwoPhasePurge ==
    \A w \in Writers :
      LET me == writers[w]
      IN  me.pc = "purge" =>
            \A k \in PrefixKeys(inv, CallId(me.call)) : k \in DOMAIN me.winv

\* the Key stored under an id (the record decodes in every store that was
\* only written by put_api_key)
StoredKey(ks, id) == SerdeJsonCodec_bytes_decode_Key(ks[id])[1]

\* ------------------------------------------------------------------------
\* C29: in every committed state the inverted index is the index derived
\* from the primary table: each inverted entry belongs to a stored record
\* of its id, decodes to an (id, action, scope) that the index-build rule
\* yields for that record and has the record's expires_at as its value;
\* and every entry the rule yields for a stored record is present.
\* ------------------------------------------------------------------------
C29_IndexDerivedFromPrimary ==
    /\ \A b \in DOMAIN inv :
          \E id \in DOMAIN keys :
            /\ IsPrefix(id, b)
            /\ ActionKeyIdCodec_bytes_decode(b) # None
            /\ ActionKeyIdCodec_bytes_decode(b)[1] \in RuleEntries(StoredKey(keys, id))
            /\ inv[b] = SerdeJsonCodec_bytes_encode_DateTime(
                            StoredKey(keys, id).expires_at)
    /\ \A id \in DOMAIN keys :
          \A e \in RuleEntries(StoredKey(keys, id)) :
            ActionKeyIdCodec_bytes_encode(e[1], e[2], e[3]) \in DOMAIN inv

\* the ids a call wrote to: the id of a committed put, the first 8 bytes of
\* the credential of a committed delete, none for a failed call or a read
Touched(r) ==
    IF r.status = "Ok" /\ r.op = "put" THEN { r.arg }
    ELSE IF r.status = "Ok" /\ r.op = "delete" /\ Len(r.arg) >= KEY_ID_LENGTH
         THEN { IdOf(r.arg) }
         ELSE {}

\* ------------------------------------------------------------------------
\* C30: frame of the writes.  A put_api_key or delete_api_key changes only
\* the primary record of its own id and the inverted entries whose key
\* starts with the 8 bytes of that id: the record of every other id and
\* every inverted entry under another id are the same before and after
\* the call (a failed call and a read change nothing at all).
\* ------------------------------------------------------------------------
C30_WriteFrame ==
    [][ /\ \A id \in (DOMAIN keys) \cup (DOMAIN keys') :
              id \notin Touched(result') =>
                  /\ id \in DOMAIN keys
                  /\ id \in DOMAIN keys'
                  /\ keys'[id] = keys[id]
        /\ \A b \in (DOMAIN inv) \cup (DOMAIN inv') :
              (\A t \in Touched(result') : ~IsPrefix(t, b)) =>
                  /\ b \in DOMAIN inv
                  /\ b \in DOMAIN inv'
                  /\ inv'[b] = inv[b]
      ]_vars

\* a put replaced the Key of one id and purged its entries while another
\* id, equal to it in its first seven bytes, has a record and entries
C30_Witness ==
    /\ PutOk
    /\ result.arg = Id1
    /\ result.pre.had
    /\ result.pre.purged >= 1
    /\ Id2 \in DOMAIN keys
    /\ PrefixKeys(inv, Id2) # {}

\* ------------------------------------------------------------------------
\* C31: IndexControllerBuilder::build creates the task store with the size
\* given to set_max_update_store_size, and fails with the error 'Missing
\* update database size' exactly when set_max_update_store_size was never
\* called, whether or not set_max_index_size was called: a build that
\* returns Ok was given an update store size and opened the task store with
\* it; a build on a builder with an index size and no update store size
\* returns that error; and that error is returned only to a builder
\* without an update store size.
\* ------------------------------------------------------------------------
C31_UpdateStoreSize ==
    /\ built.status = "Ok" =>
          /\ built.from.max_update_store_size # << >>
          /\ built.task_store_size = built.from.max_update_store_size
    /\ ( /\ built.status # "none"
         /\ built.from.max_index_size # << >>
         /\ built.from.max_update_store_size = << >> ) =>
          /\ built.status = "Err"
          /\ built.error = "Missing update database size"
    /\ built.error = "Missing update database size" =>
          built.from.max_update_store_size = << >>


====
